---- MODULE Spec2Model ----
(***************************************************************************)
(* Model of modelgen, the generator that turns a YAML description of       *)
(* algebraic data types into Rust source: the schema parser (AstParser)    *)
(* the constructor of RustGenerator, with derivePaths (reference graph,    *)
(* cycle breaking, path inference) and the graphlib algorithms it calls    *)
(* (findCycles, dijkstraAll), and generate (declarations, reflection       *)
(* tables, trace implementations, conversions).                            *)
(*                                                                         *)
(* JavaScript strings are sequences of one-character strings, so that      *)
(* startsWith / endsWith / substring are computed rather than assumed.     *)
(* A raw YAML node is a record with the uniform fields k (its typeOf),     *)
(* s (characters of a scalar), keys and items (entries of a mapping, or    *)
(* the elements of a sequence).                                            *)
(***************************************************************************)
EXTENDS Integers, Sequences, FiniteSets, TLC

\* ------------------------------------------------------------------ bounds
MaxStrLen == 3
MaxDepth == 2
MaxOperands == 3
MaxAlts == 2
MaxEntries == 2

\* ------------------------------------------------------- raw schema nodes
RawString(s) == [k |-> "String", s |-> s, keys |-> <<>>, items |-> <<>>]
RawArray(items) == [k |-> "Array", s |-> <<>>, keys |-> <<>>, items |-> items]
RawObject(keys, vals) == [k |-> "Object", s |-> <<>>, keys |-> keys, items |-> vals]
RawNull == [k |-> "Null", s |-> <<>>, keys |-> <<>>, items |-> <<>>]
RawNumber == [k |-> "Number", s |-> <<>>, keys |-> <<>>, items |-> <<>>]
RawBoolean == [k |-> "Boolean", s |-> <<>>, keys |-> <<>>, items |-> <<>>]

\* the falsy number and boolean, and the value of a key that is not there;
\* RawNumber and RawBoolean are a number other than 0 and true
RawZero == [k |-> "Number", s |-> <<"0">>, keys |-> <<>>, items |-> <<>>]
RawFalse == [k |-> "Boolean", s |-> <<"false">>, keys |-> <<>>, items |-> <<>>]
RawUndefined == [k |-> "Undefined", s |-> <<>>, keys |-> <<>>, items |-> <<>>]

typeOf(value) == value.k

isArray(input) == typeOf(input) = "Array"

isString(input) == typeOf(input) = "String"

\* ------------------------------------------------------ JavaScript strings
startsWith(str, c) == Len(str) >= 1 /\ str[1] = c

endsWith(str, c) == Len(str) >= 1 /\ str[Len(str)] = c

Clamp(n, len) == IF n < 0 THEN 0 ELSE IF n > len THEN len ELSE n

\* String.prototype.substring(start, end): clamps both, swaps if reversed
substring(str, start, end) ==
    LET a == Clamp(start, Len(str))
        b == Clamp(end, Len(str))
        lo == IF a <= b THEN a ELSE b
        hi == IF a <= b THEN b ELSE a
    IN SubSeq(str, lo + 1, hi)

\* ------------------------------------------------------------ model types
\* TypeSpec.type is string | TypeSpec | null
StringType(name) == [tag |-> "string", name |-> name, spec |-> <<>>]
NullType == [tag |-> "null", name |-> <<>>, spec |-> <<>>]
NestedType(t) == [tag |-> "TypeSpec", name |-> <<>>, spec |-> <<t>>]

TypeSpec(type, isArr, isOpt) ==
    [type |-> type, isArray |-> isArr, isOptional |-> isOpt,
     isBoxed |-> FALSE, isSized |-> TRUE]

CaseSpec(operands) == [operands |-> operands]

TupleStructSpec(name, operands) ==
    [kind |-> "TupleStructSpec", name |-> name, operands |-> operands,
     cases |-> <<>>, fields |-> <<>>]

EnumSpec(name, cases) ==
    [kind |-> "EnumSpec", name |-> name, operands |-> <<>>,
     cases |-> cases, fields |-> <<>>]

StructSpec(name, fields) ==
    [kind |-> "StructSpec", name |-> name, operands |-> <<>>,
     cases |-> <<>>, fields |-> fields]

\* A call either returns a value or throws
Return(v) == [err |-> "", val |-> <<v>>]
Throw(msg) == [err |-> msg, val |-> <<>>]
Threw(r) == r.err # ""

\* obj[key] = value on a JavaScript object with non-numeric string keys: an
\* existing key keeps its position and gets the new value, a new key is
\* appended.
ObjectSet(obj, key, value) ==
    IF \E i \in 1..Len(obj) : obj[i].name = key
    THEN [i \in 1..Len(obj) |->
            IF obj[i].name = key THEN [name |-> key, value |-> value] ELSE obj[i]]
    ELSE Append(obj, [name |-> key, value |-> value])

\* --------------------------------------------------------- RustGenerator
\* The Rust type text is a sequence of tokens; a name contributes its
\* characters.  resolveTypeValue is resolveType on a TypeSpec's type field
\* (string | TypeSpec | null), resolveType is resolveType on a TypeSpec.
RECURSIVE resolveType(_, _), resolveTypeValue(_)
resolveTypeValue(type) ==
    IF type.tag = "null" THEN <<"()">>
    ELSE IF type.tag = "string" THEN type.name
    ELSE resolveType(type.spec[1], FALSE)

resolveType(spec, ignoreWrappers) ==
    IF ~ignoreWrappers /\ spec.isOptional
    THEN IF spec.isArray
         THEN <<"Option<", "Box<[">> \o resolveTypeValue(spec.type) \o <<"]>", ">">>
         ELSE IF spec.isBoxed
              THEN <<"Option<", "Box<">> \o resolveTypeValue(spec.type) \o <<">", ">">>
              ELSE <<"Option<">> \o resolveTypeValue(spec.type) \o <<">">>
    ELSE IF ~ignoreWrappers /\ spec.isArray
         THEN <<"Box<[">> \o resolveTypeValue(spec.type) \o <<"]>">>
         ELSE IF ~ignoreWrappers /\ spec.isBoxed
              THEN <<"Box<">> \o resolveTypeValue(spec.type) \o <<">">>
              ELSE resolveTypeValue(spec.type)

\* ---------------------------------------------------------------- parser
\* parseTypeString with the '~' prefix left on the name
parseTypeStringKeepPrefix(input) ==
    LET isOptional == endsWith(input, "?")
        isBoxed == startsWith(input, "~")
        name2 == IF isOptional THEN substring(input, 0, Len(input) - 1) ELSE input
        typeSpec == TypeSpec(StringType(name2), FALSE, FALSE)
    IN [typeSpec EXCEPT !.isBoxed = isBoxed, !.isOptional = isOptional]

parseTypeString(input) ==
    LET isOptional == endsWith(input, "?")
        isBoxed == startsWith(input, "~")
        name1 == IF isBoxed THEN substring(input, 1, Len(input)) ELSE input
        name2 == IF isOptional THEN substring(name1, 0, Len(name1) - 1) ELSE name1
        typeSpec == TypeSpec(StringType(name2), FALSE, FALSE)
    IN [typeSpec EXCEPT !.isBoxed = isBoxed, !.isOptional = isOptional]

\* new TypeSpec(this.parseType(input[0]), true), unless the inner call threw
ArrayTypeSpec(inner) ==
    IF Threw(inner) THEN inner
    ELSE Return(TypeSpec(NestedType(inner.val[1]), TRUE, FALSE))

RECURSIVE parseType(_)
parseType(input) ==
    IF isArray(input)
    THEN IF Len(input.items) = 0
         THEN Return(TypeSpec(NullType, FALSE, FALSE))
         ELSE IF Len(input.items) = 1
              THEN ArrayTypeSpec(parseType(input.items[1]))
              ELSE Throw("tuple not supported in this position")
    ELSE IF isString(input)
         THEN Return(parseTypeString(input.s))
         ELSE Throw("no")

\* array.map(obj => this.parseType(obj)): the first throw aborts the map
MapCons(first, rest) ==
    IF Threw(first) THEN first
    ELSE IF Threw(rest) THEN rest
    ELSE Return(<<first.val[1]>> \o rest.val[1])

RECURSIVE mapParseType(_)
mapParseType(array) ==
    IF Len(array) = 0 THEN Return(<<>>)
    ELSE MapCons(parseType(Head(array)), mapParseType(Tail(array)))

\* the loop of parseStruct over Object.entries(structFields); result is the
\* parseType of the first remaining field
RECURSIVE parseStructFields(_, _, _), parseStructField(_, _, _, _)
parseStructField(result, keys, vals, fields) ==
    IF Threw(result) THEN result
    ELSE parseStructFields(Tail(keys), Tail(vals),
             ObjectSet(fields, Head(keys), result.val[1]))

parseStructFields(keys, vals, fields) ==
    IF Len(keys) = 0 THEN Return(fields)
    ELSE parseStructField(parseType(Head(vals)), keys, vals, fields)

NewStructSpec(structName, fields) ==
    IF Threw(fields) THEN fields ELSE Return(StructSpec(structName, fields.val[1]))

parseStruct(structName, structFields) ==
    NewStructSpec(structName,
        parseStructFields(structFields.keys, structFields.items, <<>>))

\* new CaseSpec([typeSpec]) and new CaseSpec(typeSpecs), unless the parse threw
NewCaseSpecOfOne(typeSpec) ==
    IF Threw(typeSpec) THEN typeSpec ELSE Return(CaseSpec(<<typeSpec.val[1]>>))

NewCaseSpec(typeSpecs) ==
    IF Threw(typeSpecs) THEN typeSpecs ELSE Return(CaseSpec(typeSpecs.val[1]))

\* parseEnumValueArray parsing the element of a one-element list instead of
\* the list
parseEnumValueArrayElement(array) ==
    IF Len(array.items) = 0 THEN Return(CaseSpec(<<>>))
    ELSE NewCaseSpec(mapParseType(array.items))

parseEnumValueArray(array) ==
    IF Len(array.items) = 0 THEN Return(CaseSpec(<<>>))
    ELSE IF Len(array.items) = 1
         THEN NewCaseSpecOfOne(parseType(array))
         ELSE NewCaseSpec(mapParseType(array.items))

\* the case name and CaseSpec one alternative is filed under, or its throw
CaseEntry(key, caseSpec) == [err |-> caseSpec.err, key |-> key, val |-> caseSpec.val]

\* One iteration of parseEnum's loop
parseEnumValue(value) ==
    IF typeOf(value) = "String"
    THEN CaseEntry(value.s, NewCaseSpecOfOne(parseType(value)))
    ELSE IF typeOf(value) = "Object"
         THEN IF Len(value.keys) = 0
              THEN CaseEntry(<<>>, Throw("TypeError: undefined is not iterable"))
              ELSE IF typeOf(value.items[1]) = "String"
                   THEN CaseEntry(value.keys[1], NewCaseSpecOfOne(parseType(value.items[1])))
                   ELSE IF typeOf(value.items[1]) = "Array"
                        THEN CaseEntry(value.keys[1], parseEnumValueArray(value.items[1]))
                        ELSE CaseEntry(value.keys[1], Throw("Unknown type"))
         ELSE CaseEntry(<<>>, Throw("Unhandled JS type"))

RECURSIVE parseEnumCases(_, _), parseEnumCase(_, _, _)
parseEnumCase(c, enumValues, cases) ==
    IF c.err # "" THEN Throw(c.err)
    ELSE parseEnumCases(Tail(enumValues), ObjectSet(cases, c.key, c.val[1]))

parseEnumCases(enumValues, cases) ==
    IF Len(enumValues) = 0 THEN Return(cases)
    ELSE parseEnumCase(parseEnumValue(Head(enumValues)), enumValues, cases)

NewEnumSpec(enumName, cases) ==
    IF Threw(cases) THEN cases ELSE Return(EnumSpec(enumName, cases.val[1]))

parseEnum(enumName, enumValues) ==
    NewEnumSpec(enumName, parseEnumCases(enumValues, <<>>))

NewTupleStructSpec(key, operands) ==
    IF Threw(operands) THEN operands
    ELSE Return(TupleStructSpec(key, operands.val[1]))

\* what the callback of parse()'s map gives: a spec, a throw, or (warn) a
\* console.log and undefined
Mapped(r) == [err |-> r.err, warn |-> FALSE, val |-> r.val]

Unhandled == [err |-> "", warn |-> TRUE, val |-> <<>>]

\* parseEntry taking sequences of up to two elements as tuple structs
parseEntryLengthTwo(key, value) ==
    IF typeOf(value) = "String"
    THEN Mapped(NewTupleStructSpec(key, mapParseType(<<value>>)))
    ELSE IF typeOf(value) = "Object"
         THEN Mapped(parseStruct(key, value))
         ELSE IF typeOf(value) = "Array"
              THEN IF Len(value.items) <= 2
                   THEN Mapped(NewTupleStructSpec(key, mapParseType(value.items)))
                   ELSE Mapped(parseEnum(key, value.items))
              ELSE Unhandled

\* The callback of parse()'s map over Object.entries(ast.models); the
\* one-operand list [this.parseType(value)] is the map over <<value>>
parseEntry(key, value) ==
    IF typeOf(value) = "String"
    THEN Mapped(NewTupleStructSpec(key, mapParseType(<<value>>)))
    ELSE IF typeOf(value) = "Object"
         THEN Mapped(parseStruct(key, value))
         ELSE IF typeOf(value) = "Array"
              THEN IF Len(value.items) <= 1
                   THEN Mapped(NewTupleStructSpec(key, mapParseType(value.items)))
                   ELSE Mapped(parseEnum(key, value.items))
              ELSE Unhandled

Warning(key) == [kind |-> "Warning", key |-> key]

\* the map of parse() over the remaining entries: the results so far, the
\* lines console.log has written, and the throw that ended it, if any
RECURSIVE parseEntries(_, _, _), parseNextEntry(_, _, _, _)
parseNextEntry(r, entries, results, out) ==
    IF r.err # "" THEN [err |-> r.err, results |-> results, out |-> out]
    ELSE parseEntries(Tail(entries), Append(results, r.val),
             IF r.warn THEN Append(out, Warning(Head(entries).key)) ELSE out)

parseEntries(entries, results, out) ==
    IF Len(entries) = 0 THEN [err |-> "", results |-> results, out |-> out]
    ELSE parseNextEntry(parseEntry(Head(entries).key, Head(entries).value),
             entries, results, out)

\* .filter(x => x != null)
RECURSIVE FilterNonNull(_)
FilterNonNull(results) ==
    IF Len(results) = 0 THEN <<>>
    ELSE Head(results) \o FilterNonNull(Tail(results))

\* AstParser.parse on the entries of ast.models
parse(entries) == parseEntries(entries, <<>>, <<>>)

\* ------------------------------------------- derivePaths: reference graph
\* A vertex label of the graph.  In the code a label is a string: a type
\* name, `${a.name}.${key}` for a record field, `${a.name}.${i}` for a newtype
\* operand and `${a.name}::${key}#${case_.operands.length}` for a case.  The
\* names of the schemas considered hold no '.', ':' or '#' and no field name
\* is a number, so includes("::"), includes("."), split and parseInt recover
\* exactly the parts kept here: t says which template made the label.
TypeVertex(name) == [t |-> "type", parent |-> name, key |-> <<>>, n |-> 0]

FieldVertex(a, key) == [t |-> "field", parent |-> a.name, key |-> key, n |-> 0]

OperandVertex(a, i) == [t |-> "operand", parent |-> a.name, key |-> <<>>, n |-> i]

CaseVertex(a, key, case_) ==
    [t |-> "case", parent |-> a.name, key |-> key, n |-> Len(case_.operands)]

\* x.includes("::") and x.includes(".")
includesColons(x) == x.t = "case"

includesDot(x) == x.t \in {"field", "operand"}

Edge(v, w) == [v |-> v, w |-> w]

\* the calls of graph.setEdge made by nested loops, in order
RECURSIVE Flatten(_)
Flatten(ss) ==
    IF Len(ss) = 0 THEN <<>> ELSE Head(ss) \o Flatten(Tail(ss))

\* graph.setEdge(a.name, mid); graph.setEdge(mid, this.resolveType(slot, true))
slotEdges(a, mid, slot) ==
    IF slot.isArray THEN <<>>
    ELSE <<Edge(TypeVertex(a.name), mid),
           Edge(mid, TypeVertex(resolveType(slot, TRUE)))>>

structEdges(a) ==
    Flatten([f \in 1..Len(a.fields) |->
                slotEdges(a, FieldVertex(a, a.fields[f].name), a.fields[f].value)])

\* operand i of the code is operands[i + 1] here
tupleStructEdges(a) ==
    Flatten([i \in 1..Len(a.operands) |->
                slotEdges(a, OperandVertex(a, i - 1), a.operands[i])])

caseEdges(a, key, case_) ==
    Flatten([o \in 1..Len(case_.operands) |->
                slotEdges(a, CaseVertex(a, key, case_), case_.operands[o])])

enumEdges(a) ==
    Flatten([c \in 1..Len(a.cases) |->
                IF Len(a.cases[c].value.operands) >= 1
                THEN caseEdges(a, a.cases[c].name, a.cases[c].value)
                ELSE <<>>])

modelEdges(a) ==
    IF a.kind = "StructSpec" THEN structEdges(a)
    ELSE IF a.kind = "TupleStructSpec" THEN tupleStructEdges(a)
    ELSE enumEdges(a)

\* graphlib Graph: nodes and edges in insertion order
setNode(nodes, v) ==
    IF \E i \in 1..Len(nodes) : nodes[i] = v THEN nodes ELSE Append(nodes, v)

setEdge(g, e) ==
    [nodes |-> setNode(setNode(g.nodes, e.v), e.w),
     edges |-> IF \E i \in 1..Len(g.edges) : g.edges[i] = e
               THEN g.edges ELSE Append(g.edges, e)]

RECURSIVE setEdges(_, _)
setEdges(g, es) ==
    IF Len(es) = 0 THEN g ELSE setEdges(setEdge(g, Head(es)), Tail(es))

\* the graph derivePaths builds from this.models
buildGraph(ms) ==
    setEdges([nodes |-> <<>>, edges |-> <<>>],
             Flatten([m \in 1..Len(ms) |-> modelEdges(ms[m])]))

\* position of the vertex v in g.nodes()
NodeId(g, v) == CHOOSE i \in 1..Len(g.nodes) : g.nodes[i] = v

\* g.successors(v) for every v, by position, in insertion order
RECURSIVE successorsOf(_, _, _)
successorsOf(g, v, es) ==
    IF Len(es) = 0 THEN <<>>
    ELSE (IF Head(es).v = v THEN <<NodeId(g, Head(es).w)>> ELSE <<>>)
         \o successorsOf(g, v, Tail(es))

successors(g) == [i \in 1..Len(g.nodes) |-> successorsOf(g, g.nodes[i], g.edges)]

\* --------------------------------------------- graphlib alg.findCycles
\* tarjan(g): index, the stack, visited (idx = -1 for a node not visited
\* yet, lowlink, onStack) and the components found so far
tarjanInit(n) ==
    [index |-> 0, stack |-> <<>>, results |-> <<>>,
     idx |-> [i \in 1..n |-> -1], low |-> [i \in 1..n |-> -1],
     on |-> [i \in 1..n |-> FALSE]]

tarjanEnter(st, v) ==
    [st EXCEPT !.idx[v] = st.index, !.low[v] = st.index, !.on[v] = TRUE,
               !.index = st.index + 1, !.stack = Append(st.stack, v)]

MinOf(a, b) == IF a < b THEN a ELSE b

\* do { w = stack.pop(); ... cmpt.push(w) } while (v !== w); results.push(cmpt)
RECURSIVE popComponent(_, _, _), popNext(_, _, _, _)
popNext(st, v, cmpt, w) ==
    IF w = v
    THEN [st EXCEPT !.stack = SubSeq(st.stack, 1, Len(st.stack) - 1),
                    !.on[w] = FALSE,
                    !.results = Append(st.results, Append(cmpt, w))]
    ELSE popComponent([st EXCEPT !.stack = SubSeq(st.stack, 1, Len(st.stack) - 1),
                                 !.on[w] = FALSE],
                      v, Append(cmpt, w))

popComponent(st, v, cmpt) == popNext(st, v, cmpt, st.stack[Len(st.stack)])

dfsReturn(st, v, w) == [st EXCEPT !.low[v] = MinOf(st.low[v], st.low[w])]

dfsOnStack(st, v, w) == [st EXCEPT !.low[v] = MinOf(st.low[v], st.idx[w])]

dfsExit(st, v) ==
    IF st.low[v] = st.idx[v] THEN popComponent(st, v, <<>>) ELSE st

RECURSIVE dfs(_, _, _), dfsEach(_, _, _, _)
dfsEach(adj, st, v, ws) ==
    IF Len(ws) = 0 THEN st
    ELSE IF st.idx[Head(ws)] = -1
         THEN dfsEach(adj, dfsReturn(dfs(adj, st, Head(ws)), v, Head(ws)), v, Tail(ws))
         ELSE IF st.on[Head(ws)]
              THEN dfsEach(adj, dfsOnStack(st, v, Head(ws)), v, Tail(ws))
              ELSE dfsEach(adj, st, v, Tail(ws))

dfs(adj, st, v) == dfsExit(dfsEach(adj, tarjanEnter(st, v), v, adj[v]), v)

RECURSIVE tarjanFrom(_, _, _)
tarjanFrom(adj, st, v) ==
    IF v > Len(adj) THEN st.results
    ELSE IF st.idx[v] = -1
         THEN tarjanFrom(adj, dfs(adj, st, v), v + 1)
         ELSE tarjanFrom(adj, st, v + 1)

tarjan(adj) == tarjanFrom(adj, tarjanInit(Len(adj)), 1)

hasSelfEdge(adj, v) == \E k \in 1..Len(adj[v]) : adj[v][k] = v

isCycle(adj, cmpt) ==
    Len(cmpt) > 1 \/ (Len(cmpt) = 1 /\ hasSelfEdge(adj, cmpt[1]))

\* the components of more than one node, or of one node with a self loop
RECURSIVE filterCycles(_, _)
filterCycles(adj, cmpts) ==
    IF Len(cmpts) = 0 THEN <<>>
    ELSE (IF isCycle(adj, Head(cmpts)) THEN <<Head(cmpts)>> ELSE <<>>)
         \o filterCycles(adj, Tail(cmpts))

Labels(g, ids) == [k \in 1..Len(ids) |-> g.nodes[ids[k]]]

labelCycles(g, cs) == [c \in 1..Len(cs) |-> Labels(g, cs[c])]

\* alg.findCycles(graph): lists of vertex labels
findCycles(g) == labelCycles(g, filterCycles(successors(g), tarjan(successors(g))))

\* ------------------------------------------- derivePaths: cycle breaking
\* this.models.find(x => x.name === parent)
findModel(ms, parent) ==
    CHOOSE m \in 1..Len(ms) :
        ms[m].name = parent /\ \A j \in 1..(m - 1) : ms[j].name # parent

\* position of model.cases[enumCase] and of model.fields[structField]
caseIndex(model, enumCase) ==
    CHOOSE c \in 1..Len(model.cases) : model.cases[c].name = enumCase

fieldIndex(model, structField) ==
    CHOOSE f \in 1..Len(model.fields) : model.fields[f].name = structField

\* boxEnumCase flipping the flag instead of setting it
boxEnumCaseFlip(ms, x) ==
    [ms EXCEPT ![findModel(ms, x.parent)]
                   .cases[caseIndex(ms[findModel(ms, x.parent)], x.key)]
                   .value.operands[x.n].isBoxed =
                       ~ms[findModel(ms, x.parent)]
                           .cases[caseIndex(ms[findModel(ms, x.parent)], x.key)]
                           .value.operands[x.n].isBoxed]

\* index = parseInt(indexStr, 10) - 1; model.cases[enumCase].operands[index]
\* is operands[x.n] here
boxEnumCase(ms, x) ==
    [ms EXCEPT ![findModel(ms, x.parent)]
                   .cases[caseIndex(ms[findModel(ms, x.parent)], x.key)]
                   .value.operands[x.n].isBoxed = TRUE]

boxStructField(ms, x) ==
    IF x.t = "operand"
    THEN [ms EXCEPT ![findModel(ms, x.parent)].operands[x.n + 1].isBoxed = TRUE]
    ELSE [ms EXCEPT ![findModel(ms, x.parent)]
                        .fields[fieldIndex(ms[findModel(ms, x.parent)], x.key)]
                        .value.isBoxed = TRUE]

\* for (const longEnumCase of cycleList.filter(x => x.includes("::")))
RECURSIVE boxEnumCases(_, _)
boxEnumCases(ms, xs) ==
    IF Len(xs) = 0 THEN ms
    ELSE IF includesColons(Head(xs))
         THEN boxEnumCases(boxEnumCase(ms, Head(xs)), Tail(xs))
         ELSE boxEnumCases(ms, Tail(xs))

\* for (const longStructField of cycleList.filter(x => x.includes(".")))
RECURSIVE boxStructFields(_, _)
boxStructFields(ms, xs) ==
    IF Len(xs) = 0 THEN ms
    ELSE IF includesDot(Head(xs))
         THEN boxStructFields(boxStructField(ms, Head(xs)), Tail(xs))
         ELSE boxStructFields(ms, Tail(xs))

\* pop dropping the first element instead of the last
popFirst(cycleList) == SubSeq(cycleList, 2, Len(cycleList))

\* cycleList.pop()
pop(cycleList) == SubSeq(cycleList, 1, Len(cycleList) - 1)

\* one iteration of for (const cycleList of cycles)
breakCycle(ms, cycleList) ==
    boxStructFields(boxEnumCases(ms, pop(cycleList)), pop(cycleList))

RECURSIVE breakCycles(_, _)
breakCycles(ms, cycles) ==
    IF Len(cycles) = 0 THEN ms
    ELSE breakCycles(breakCycle(ms, Head(cycles)), Tail(cycles))

\* -------------------------------------------- graphlib alg.dijkstraAll
\* A distance is <<d>>, or <<>> for Infinity; Less is < on such numbers
Less(a, b) == a # <<>> /\ (b = <<>> \/ a[1] < b[1])

\* PriorityQueue: _arr as a sequence, index i of the code is position i + 1
swap(arr, i, j) == [arr EXCEPT ![i + 1] = arr[j + 1], ![j + 1] = arr[i + 1]]

\* _decrease(index); index >> 1 is the parent
RECURSIVE decrease_(_, _)
decrease_(arr, index) ==
    IF index = 0 THEN arr
    ELSE IF Less(arr[(index \div 2) + 1].priority, arr[index + 1].priority)
         THEN arr
         ELSE decrease_(swap(arr, index, index \div 2), index \div 2)

\* the index _heapify(i) swaps i with, or i
heapifyLeft(arr, i) ==
    IF Less(arr[2 * i + 1].priority, arr[i + 1].priority) THEN 2 * i ELSE i

heapifyLargest(arr, i, largest) ==
    IF 2 * i + 1 < Len(arr)
    THEN IF Less(arr[2 * i + 2].priority, arr[largest + 1].priority)
         THEN 2 * i + 1 ELSE largest
    ELSE largest

RECURSIVE heapify(_, _), heapifySwap(_, _, _)
heapifySwap(arr, i, largest) ==
    IF largest # i THEN heapify(swap(arr, i, largest), largest) ELSE arr

heapify(arr, i) ==
    IF 2 * i < Len(arr)
    THEN heapifySwap(arr, i, heapifyLargest(arr, i, heapifyLeft(arr, i)))
    ELSE arr

\* pq.add(key, priority) for a key not in the queue
pqAdd(arr, key, priority) ==
    decrease_(Append(arr, [key |-> key, priority |-> priority]), Len(arr))

\* the queue after pq.removeMin(); the key removed is arr[1].key
removeMin(arr) ==
    heapify(SubSeq(swap(arr, 0, Len(arr) - 1), 1, Len(arr) - 1), 0)

keyIndex(arr, key) == (CHOOSE p \in 1..Len(arr) : arr[p].key = key) - 1

\* pq.decrease(key, priority)
pqDecrease(arr, key, priority) ==
    decrease_([arr EXCEPT ![keyIndex(arr, key) + 1].priority = priority],
              keyIndex(arr, key))

\* g.nodes().forEach: results[v] = { distance }; pq.add(v, distance)
RECURSIVE pqAddAll(_, _, _, _)
pqAddAll(arr, v, n, source) ==
    IF v > n THEN arr
    ELSE pqAddAll(pqAdd(arr, v, IF v = source THEN <<0>> ELSE <<>>), v + 1, n, source)

\* updateNeighbors for the edge v -> w, every weight being 1
updateNeighbors(st, v, w) ==
    IF Less(<<st.results[v].distance[1] + 1>>, st.results[w].distance)
    THEN [results |-> [st.results EXCEPT
                          ![w] = [distance |-> <<st.results[v].distance[1] + 1>>,
                                  predecessor |-> v]],
          arr |-> pqDecrease(st.arr, w, <<st.results[v].distance[1] + 1>>)]
    ELSE st

RECURSIVE updateEach(_, _, _)
updateEach(st, v, ws) ==
    IF Len(ws) = 0 THEN st
    ELSE updateEach(updateNeighbors(st, v, Head(ws)), v, Tail(ws))

\* while (pq.size() > 0) { v = pq.removeMin(); ... }
RECURSIVE runDijkstra(_, _)
runDijkstra(adj, st) ==
    IF Len(st.arr) = 0 THEN st.results
    ELSE IF st.results[st.arr[1].key].distance = <<>> THEN st.results
    ELSE runDijkstra(adj,
             updateEach([st EXCEPT !.arr = removeMin(st.arr)],
                        st.arr[1].key, adj[st.arr[1].key]))

\* predecessor 0 stands for no predecessor
dijkstra(adj, source) ==
    runDijkstra(adj,
        [arr |-> pqAddAll(<<>>, 1, Len(adj), source),
         results |-> [v \in 1..Len(adj) |->
                         [distance |-> IF v = source THEN <<0>> ELSE <<>>,
                          predecessor |-> 0]]])

dijkstraAll(adj) == [v \in 1..Len(adj) |-> dijkstra(adj, v)]

\* ------------------------------------------ derivePaths: path inference
\* path.push(key); while ((key = value.predecessor) != null) path.push(key)
RECURSIVE walkBack(_, _)
walkBack(topValue, key) ==
    IF topValue[key].predecessor = 0 THEN <<key>>
    ELSE <<key>> \o walkBack(topValue, topValue[key].predecessor)

reverse(s) == [k \in 1..Len(s) |-> s[Len(s) + 1 - k]]

\* path.pop(); path.reverse(), as vertex labels
pathTo(g, topValue, key) == Labels(g, reverse(pop(walkBack(topValue, key))))

Str == <<"s", "t", "r">>

\* model.cases[enumCase].operands[enumIndex] for enumIndex = 0
hopOperand(ms, enumKey) ==
    ms[findModel(ms, enumKey.parent)]
        .cases[caseIndex(ms[findModel(ms, enumKey.parent)], enumKey.key)]
        .value.operands[1]

isStr(type) == type.type.tag = "string" /\ type.type.name = Str

\* type.isSized = false
unsize(ms, enumKey) ==
    [ms EXCEPT ![findModel(ms, enumKey.parent)]
                   .cases[caseIndex(ms[findModel(ms, enumKey.parent)], enumKey.key)]
                   .value.operands[1].isSized = FALSE]

\* An element of newPath.  typeSpec is a reference to the operand object of
\* the model, which enumName and enumCase locate; a vertex label pushed as
\* it is has kind "key".
PathSpec(enumKey, typeName) ==
    [kind |-> "PathSpec", enumName |-> enumKey.parent, enumCase |-> enumKey.key,
     typeName |-> typeName]

PathKey(key) ==
    [kind |-> "key", enumName |-> <<>>, enumCase |-> <<>>, typeName |-> key.parent]

\* hopTypeName without the special case for str
hopTypeNamePlain(ms, enumKey) == resolveType(hopOperand(ms, enumKey), TRUE)

\* typeName = "Box<str>" for str, this.resolveType(type, true) otherwise
hopTypeName(ms, enumKey) ==
    IF isStr(hopOperand(ms, enumKey)) THEN <<"Box<">> \o Str \o <<">">>
    ELSE resolveType(hopOperand(ms, enumKey), TRUE)

\* pathHops without the test of enumIndex
RECURSIVE pathHopsAnyArity(_, _, _)
pathHopsAnyArity(path, enumKey, acc) ==
    IF Len(path) = 0 THEN acc
    ELSE IF includesColons(Head(path))
         THEN pathHopsAnyArity(Tail(path), <<Head(path)>>, acc)
         ELSE IF enumKey # <<>>
              THEN pathHopsAnyArity(Tail(path), <<>>,
                       [ok |-> TRUE,
                        ms |-> acc.ms,
                        typeName |-> hopTypeName(acc.ms, enumKey[1]),
                        newPath |-> Append(acc.newPath,
                            PathSpec(enumKey[1], hopTypeName(acc.ms, enumKey[1])))])
              ELSE pathHopsAnyArity(Tail(path), <<>>,
                       [acc EXCEPT !.newPath = Append(acc.newPath, PathKey(Head(path)))])

\* for (const key of path): acc is the models, newPath and typeName so far;
\* enumKey is <<>> for null.  null is returned where ok is FALSE.
RECURSIVE pathHops(_, _, _)
pathHops(path, enumKey, acc) ==
    IF Len(path) = 0 THEN acc
    ELSE IF includesColons(Head(path))
         THEN pathHops(Tail(path), <<Head(path)>>, acc)
         ELSE IF enumKey # <<>>
              THEN IF enumKey[1].n - 1 # 0
                   THEN [acc EXCEPT !.ok = FALSE]
                   ELSE pathHops(Tail(path), <<>>,
                            [ok |-> TRUE,
                             ms |-> IF isStr(hopOperand(acc.ms, enumKey[1]))
                                    THEN unsize(acc.ms, enumKey[1]) ELSE acc.ms,
                             typeName |-> hopTypeName(acc.ms, enumKey[1]),
                             newPath |-> Append(acc.newPath,
                                 PathSpec(enumKey[1], hopTypeName(acc.ms, enumKey[1])))])
              ELSE pathHops(Tail(path), <<>>,
                       [acc EXCEPT !.newPath = Append(acc.newPath, PathKey(Head(path)))])

\* the post-processing of one path
postProcess(ms, path) ==
    IF Len(path) = 0 THEN [ok |-> FALSE, ms |-> ms, typeName |-> <<>>, newPath |-> <<>>]
    ELSE IF includesColons(path[Len(path)]) \/ \E k \in 1..Len(path) : includesDot(path[k])
         THEN [ok |-> FALSE, ms |-> ms, typeName |-> <<>>, newPath |-> <<>>]
         ELSE pathHops(path, <<>>,
                  [ok |-> TRUE, ms |-> ms, typeName |-> <<>>, newPath |-> <<>>])

\* the callback of the inner map, for the entry key of topValue
pathEntry(g, ms, topValue, key) ==
    IF topValue[key].distance = <<>>
    THEN [ok |-> FALSE, ms |-> ms, typeName |-> <<>>, newPath |-> <<>>]
    ELSE postProcess(ms, pathTo(g, topValue, key))

\* the inner map, filter and reduce: the models and the object of paths
RECURSIVE pathEntries(_, _, _, _), pathEntryDone(_, _, _, _, _)
pathEntryDone(r, g, topValue, key, paths) ==
    IF r.ok
    THEN pathEntries(g, [ms |-> r.ms, paths |-> ObjectSet(paths, r.typeName, r.newPath)],
             topValue, key + 1)
    ELSE pathEntries(g, [ms |-> r.ms, paths |-> paths], topValue, key + 1)

pathEntries(g, acc, topValue, key) ==
    IF key > Len(topValue) THEN acc
    ELSE pathEntryDone(pathEntry(g, acc.ms, topValue, key), g, topValue, key, acc.paths)

\* the outer map: per topKey, {} or { [topKey]: paths }
RECURSIVE topEntries(_, _, _, _), topEntryDone(_, _, _, _, _)
topEntryDone(r, g, all, topKey, acc) ==
    IF Len(r.paths) = 0
    THEN topEntries(g, [ms |-> r.ms, mapped |-> Append(acc.mapped, <<>>)],
             all, topKey + 1)
    ELSE topEntries(g, [ms |-> r.ms,
                        mapped |-> Append(acc.mapped,
                            <<[name |-> g.nodes[topKey].parent, value |-> r.paths]>>)],
             all, topKey + 1)

topEntries(g, acc, all, topKey) ==
    IF topKey > Len(all) THEN acc
    ELSE IF includesColons(g.nodes[topKey]) \/ includesDot(g.nodes[topKey])
         THEN topEntries(g, [acc EXCEPT !.mapped = Append(acc.mapped, <<>>)],
                  all, topKey + 1)
         ELSE topEntryDone(pathEntries(g, [ms |-> acc.ms, paths |-> <<>>],
                                all[topKey], 1),
                  g, all, topKey, acc)

\* .reduce((acc, cur) => Object.assign(acc, cur)) without an initial value
RECURSIVE assignAll(_, _)
assignAll(acc, objs) ==
    IF Len(objs) = 0 THEN acc
    ELSE assignAll(IF Len(Head(objs)) = 0 THEN acc
                   ELSE ObjectSet(acc, Head(objs)[1].name, Head(objs)[1].value),
                   Tail(objs))

reduceAssign(r, cycles) ==
    IF Len(r.mapped) = 0
    THEN [err |-> "TypeError: Reduce of empty array with no initial value",
          ms |-> r.ms, paths |-> <<>>, cycles |-> cycles]
    ELSE [err |-> "", ms |-> r.ms, paths |-> assignAll(<<>>, r.mapped),
          cycles |-> cycles]

\* derivePaths after the graph is built: the models as it leaves them, the
\* paths it returns or its throw, and the cycles it writes with console.error
derivePathsOn(g, ms, cycles) ==
    reduceAssign(
        topEntries(g, [ms |-> breakCycles(ms, cycles), mapped |-> <<>>],
                   dijkstraAll(successors(g)), 1),
        cycles)

derivePaths(ms) == derivePathsOn(buildGraph(ms), ms, findCycles(buildGraph(ms)))

\* ------------------------------------------- RustGenerator constructor
\* obj[key] on a mapping; undefined on any other value that is not null
RECURSIVE GetFrom(_, _, _)
GetFrom(keys, items, key) ==
    IF Len(keys) = 0 THEN RawUndefined
    ELSE IF Head(keys) = key THEN Head(items)
    ELSE GetFrom(Tail(keys), Tail(items), key)

Get(obj, key) ==
    IF typeOf(obj) = "Object" THEN GetFrom(obj.keys, obj.items, key) ELSE RawUndefined

\* if (x) on a raw value
truthy(x) ==
    /\ x \notin {RawNull, RawUndefined, RawZero, RawFalse}
    /\ ~(typeOf(x) = "String" /\ Len(x.s) = 0)

\* (input as unknown[]).find(x => typeOf(x) != JsType.String)
RECURSIVE find(_)
find(input) ==
    IF Len(input) = 0 THEN RawUndefined
    ELSE IF typeOf(Head(input)) # "String" THEN Head(input)
    ELSE find(Tail(input))

isStringArray(input) ==
    IF typeOf(input) # "Array" THEN FALSE
    ELSE IF truthy(find(input.items)) THEN FALSE
    ELSE TRUE

\* reading config.derive throws on undefined and on null
readsProperty(config) == typeOf(config) \notin {"Undefined", "Null"}

deriveOf(config) ==
    IF isStringArray(Get(config, <<"derive">>))
    THEN Get(config, <<"derive">>).items ELSE <<>>

\* this.visibility: <<>> where it is left undefined
visibilityOf(config) ==
    IF isString(Get(config, <<"visibility">>))
    THEN <<Get(config, <<"visibility">>).s>> ELSE <<>>

\* ------------------------------------------------- RustGenerator.generate
\* What console.log writes is kept as one record per call, holding the parts
\* the template string is made of; kind says which template it is.
Letters ==
    <<"a", "b", "c", "d", "e", "f", "g", "h", "i", "j", "k", "l", "m",
      "n", "o", "p", "q", "r", "s", "t", "u", "v", "w", "x", "y", "z">>

\* String.fromCharCode(i), for the codes of the lower-case letters
fromCharCode(i) == Letters[i - 96]

\* alphabet with the loop running to 97 + count inclusive
alphabetInclusive(count) == [k \in 1..(count + 1) |-> fromCharCode(97 + k - 1)]

\* for (let i = 97; i < 97 + count; ++i) o.push(String.fromCharCode(i))
alphabet(count) == [k \in 1..count |-> fromCharCode(97 + k - 1)]

\* this.visibility ? `${this.visibility} ` : ''
visOf(vis) ==
    IF vis # <<>> /\ Len(vis[1]) > 0 THEN vis[1] \o <<" ">> ELSE <<>>

\* generateTupleStruct: the derive line, if any, and the declaration
generateTupleStruct(drv, vis, model) ==
    (IF Len(drv) > 0 THEN <<[kind |-> "Derive", derive |-> drv]>> ELSE <<>>)
    \o <<[kind |-> "TupleStruct", vis |-> visOf(vis), name |-> model.name,
          operands |-> [o \in 1..Len(model.operands) |->
                           visOf(vis) \o resolveType(model.operands[o], FALSE)]]>>

generateStruct(drv, vis, model) ==
    <<[kind |-> "Struct", derive |-> drv, vis |-> visOf(vis), name |-> model.name,
       fields |-> [f \in 1..Len(model.fields) |->
                      [name |-> model.fields[f].name,
                       type |-> resolveType(model.fields[f].value, FALSE)]]]>>

generateEnum(drv, vis, model) ==
    <<[kind |-> "Enum",
       repr |-> \E c \in 1..Len(model.cases) : Len(model.cases[c].value.operands) > 0,
       derive |-> drv, vis |-> visOf(vis), name |-> model.name,
       cases |-> [c \in 1..Len(model.cases) |->
                     [name |-> model.cases[c].name,
                      operands |-> [o \in 1..Len(model.cases[c].value.operands) |->
                          resolveType(model.cases[c].value.operands[o], FALSE)]]]]>>

Invalid == <<"__Invalid">>

\* generateTaggedUnionImpl resolving the first operand of every case that
\* has operands
generateTaggedUnionImplFirst(model) ==
    <<[kind |-> "TaggedUnion", name |-> model.name, count |-> Len(model.cases),
       typeIds |-> [c \in 1..Len(model.cases) |->
                       IF Len(model.cases[c].value.operands) = 0 THEN Invalid
                       ELSE resolveType(model.cases[c].value.operands[1], FALSE)]]>>

\* typeIds is one entry per value of model.cases; count is the length of TAGS
generateTaggedUnionImpl(model) ==
    <<[kind |-> "TaggedUnion", name |-> model.name, count |-> Len(model.cases),
       typeIds |-> [c \in 1..Len(model.cases) |->
                       IF Len(model.cases[c].value.operands) # 1 THEN Invalid
                       ELSE resolveType(model.cases[c].value.operands[1], FALSE)]]>>

\* `self.${x}.trace(marker);` and `${x}.trace(marker);`
TraceSelf(x) == [t |-> "self", x |-> x]

TraceVar(x) == [t |-> "var", x |-> x]

\* one arm of the match: the pattern's variables and the body's statements
traceArm(bind, model, case) ==
    [t |-> "arm", enumName |-> model.name, enumCase |-> case.name,
     binds |-> IF Len(case.value.operands) = 0 THEN <<>>
               ELSE bind,
     body |-> IF Len(case.value.operands) = 0 THEN <<>>
              ELSE [k \in 1..Len(bind) |-> TraceVar(bind[k])]]

\* the items of generateTraceImpl; operand i of the code is self.(i) with i
\* from 0
traceItems(model) ==
    IF model.kind = "TupleStructSpec"
    THEN [i \in 1..Len(model.operands) |-> TraceSelf(i - 1)]
    ELSE IF model.kind = "EnumSpec"
         THEN <<[t |-> "match"]>>
              \o [c \in 1..Len(model.cases) |->
                     traceArm(alphabet(Len(model.cases[c].value.operands)),
                              model, model.cases[c])]
              \o <<[t |-> "end"]>>
         ELSE [f \in 1..Len(model.fields) |-> TraceSelf(model.fields[f].name)]

generateTraceImpl(model) ==
    <<[kind |-> "Trace", name |-> model.name, items |-> traceItems(model)]>>

\* one iteration of the loop of generateModels
generateModel(drv, vis, model) ==
    (IF model.kind = "TupleStructSpec" THEN generateTupleStruct(drv, vis, model)
     ELSE IF model.kind = "EnumSpec"
          THEN generateEnum(drv, vis, model) \o generateTaggedUnionImpl(model)
          ELSE generateStruct(drv, vis, model))
    \o generateTraceImpl(model)

generateModels(drv, vis, ms) ==
    Flatten([m \in 1..Len(ms) |-> generateModel(drv, vis, ms[m])])

\* obj[key] on an object of the generator: no or one value
ObjectGet(obj, key) ==
    IF \E i \in 1..Len(obj) : obj[i].name = key
    THEN <<obj[CHOOSE i \in 1..Len(obj) : obj[i].name = key].value>>
    ELSE <<>>

\* cur.typeSpec: the operand object the hop was made from
typeSpecOf(ms, hop) ==
    hopOperand(ms, [parent |-> hop.enumName, key |-> hop.enumCase])

\* matchValue taking the box of the current hop instead of the one before
matchValueOfCur(ms, path, i) ==
    IF typeSpecOf(ms, path[i]).isBoxed /\ ~typeSpecOf(ms, path[i]).isArray
    THEN "*value" ELSE "value"

\* before != null && before.typeSpec.isBoxed && !cur.typeSpec.isArray
matchValueOf(ms, path, i) ==
    IF i > 1 /\ typeSpecOf(ms, path[i - 1]).isBoxed /\ ~typeSpecOf(ms, path[i]).isArray
    THEN "*value" ELSE "value"

\* cur.typeSpec.isBoxed && !cur.typeSpec.isArray && cur.typeSpec.isSized
boxedSized(type) == type.isBoxed /\ ~type.isArray /\ type.isSized

\* the statement unshifted to letExpr for hop i (path[i - 1] of the code):
\* what is matched, and what the statement gives
letItem(ms, path, i) ==
    [enumName |-> path[i].enumName, enumCase |-> path[i].enumCase,
     matchValue |-> matchValueOf(ms, path, i),
     gives |-> IF i = Len(path)
               THEN IF boxedSized(typeSpecOf(ms, path[i]))
                    THEN "return Ok(*value)" ELSE "return Ok(value)"
               ELSE "let value = value"]

\* item for hop i: the constructor applied to Box::new(value) or to value
fromItem(ms, path, i) ==
    [enumName |-> path[i].enumName, enumCase |-> path[i].enumCase,
     boxNew |-> boxedSized(typeSpecOf(ms, path[i]))]

\* generateCastFn emitting the extraction whether lossless or not
generateCastFnBoth(ms, fromName, toName, path, isLossless) ==
    <<[kind |-> "TryFrom", from |-> fromName, to |-> toName,
       letExpr |-> [i \in 1..Len(path) |-> letItem(ms, path, i)]],
      [kind |-> "From", from |-> fromName, to |-> toName,
       fromExpr |-> [i \in 1..Len(path) |-> fromItem(ms, path, i)]]>>

\* the loop runs from the last hop to the first, unshifting to letExpr and
\* wrapping fromExpr, so both end up in the order of the path; fromExpr is
\* the nest of its items around "value", the first item outermost
generateCastFn(ms, fromName, toName, path, isLossless) ==
    (IF ~isLossless
     THEN <<[kind |-> "TryFrom", from |-> fromName, to |-> toName,
             letExpr |-> [i \in 1..Len(path) |-> letItem(ms, path, i)]]>>
     ELSE <<>>)
    \o <<[kind |-> "From", from |-> fromName, to |-> toName,
          fromExpr |-> [i \in 1..Len(path) |-> fromItem(ms, path, i)]]>>

\* this.paths[keyTo] != null && this.paths[keyTo][keyFrom] != null
isLosslessOf(ps, keyFrom, keyTo) ==
    /\ ObjectGet(ps, keyTo) # <<>>
    /\ ObjectGet(ObjectGet(ps, keyTo)[1], keyFrom) # <<>>

\* the callback of the inner forEach of generateCastFns
castFnsOf(ms, ps, keyFrom, keyTo, path) ==
    IF \A m \in 1..Len(ms) : ms[m].name # keyFrom
    THEN [err |-> "From type should not be null", out |-> <<>>]
    ELSE IF \E h \in 1..Len(path) : path[h].kind # "PathSpec"
         THEN [err |-> "TypeError: Cannot read property 'isBoxed' of undefined",
               out |-> <<>>]
         ELSE [err |-> "",
               out |-> generateCastFn(ms, keyFrom, keyTo, path,
                                      isLosslessOf(ps, keyFrom, keyTo))]

\* the pairs (keyFrom, keyTo, path) in the order of the two forEach loops
castPairs(ps) ==
    Flatten([p \in 1..Len(ps) |->
                [q \in 1..Len(ps[p].value) |->
                    [keyFrom |-> ps[p].name, keyTo |-> ps[p].value[q].name,
                     path |-> ps[p].value[q].value]]])

\* generateCastFns: what is written until the first throw
RECURSIVE castFnsEach(_, _, _, _), castFnsNext(_, _, _, _, _)
castFnsNext(r, ms, ps, pairs, out) ==
    IF r.err # "" THEN [err |-> r.err, out |-> out]
    ELSE castFnsEach(ms, ps, Tail(pairs), out \o r.out)

castFnsEach(ms, ps, pairs, out) ==
    IF Len(pairs) = 0 THEN [err |-> "", out |-> out]
    ELSE castFnsNext(castFnsOf(ms, ps, Head(pairs).keyFrom, Head(pairs).keyTo,
                               Head(pairs).path),
                     ms, ps, pairs, out)

generateCastFns(ms, ps) == castFnsEach(ms, ps, castPairs(ps), <<>>)

generateTest(ms) ==
    <<[kind |-> "Test", prints |-> [m \in 1..Len(ms) |-> ms[m].name]]>>

\* the nine calls of console.log
generateHeaders ==
    <<[kind |-> "Header", text |-> "#![feature(const_type_id)]"],
      [kind |-> "Header", text |-> ""],
      [kind |-> "Header", text |-> "use std::any::{Any, TypeId};"],
      [kind |-> "Header", text |-> "use std::convert::TryFrom;"],
      [kind |-> "Header", text |-> "use bcgc::*;"],
      [kind |-> "Header", text |-> ""],
      [kind |-> "Header", text |-> "pub struct CastError"],
      [kind |-> "Header", text |-> "impl CastError"],
      [kind |-> "Header", text |-> ""]>>

\* generate(): generateTest is not reached when generateCastFns throws
generateEnd(r, out, ms) ==
    IF r.err # "" THEN [err |-> r.err, out |-> out \o r.out]
    ELSE [err |-> "", out |-> out \o r.out \o generateTest(ms)]

generate(drv, vis, ms, ps) ==
    generateEnd(generateCastFns(ms, ps),
                generateHeaders \o generateModels(drv, vis, ms), ms)

\* ------------------------------------------------------- input universe
Chars == {"~", "?", "A"}

Strs == UNION {[1..n -> Chars] : n \in 0..MaxStrLen}

Names == {<<"A">>, <<"B">>}

TopNames == {<<"A">>, <<"B">>, <<"C">>}

NonStrs == {RawNull, RawNumber, RawBoolean}

TupleElems == {RawString(n) : n \in Names} \cup {RawArray(<<RawString(<<"A">>)>>)}

\* raw nodes in a type position: scalars, non-strings, and sequences nested
\* up to depth d
RECURSIVE RawTypes(_)
RawTypes(d) ==
    IF d = 0 THEN {RawString(s) : s \in Strs} \cup NonStrs
    ELSE RawTypes(0) \cup {RawArray(<<>>)}
         \cup {RawArray(<<x>>) : x \in RawTypes(d - 1)}
         \cup {RawArray(<<x, y>>) : x, y \in TupleElems}

\* elements of a case's operand list
OperandElems ==
    {RawString(<<"A">>), RawArray(<<RawString(<<"A">>)>>), RawArray(<<>>), RawNull,
     RawArray(<<RawString(<<"A">>), RawString(<<"B">>)>>)}

OperandLists ==
    {RawArray(l) : l \in UNION {[1..n -> OperandElems] : n \in 2..MaxOperands}}

Payloads == RawTypes(MaxDepth) \cup OperandLists

\* alternatives of a sum: one taken from RichAlts, the others from SmallAlts
RichAlts ==
    {RawString(s) : s \in Strs} \cup NonStrs \cup {RawObject(<<>>, <<>>)}
    \cup {RawObject(<<k>>, <<p>>) : k \in Names, p \in Payloads}

SmallAlts ==
    {RawString(<<"A">>),
     RawObject(<<<<"A">>>>, <<RawArray(<<>>)>>),
     RawObject(<<<<"B">>>>, <<RawString(<<"A">>)>>)}

InsertAt(seq, i, x) == SubSeq(seq, 1, i - 1) \o <<x>> \o SubSeq(seq, i, Len(seq))

RichStructs ==
    {RawObject(<<<<"f">>>>, <<x>>) : x \in RawTypes(MaxDepth)}
    \cup {RawObject(<<<<"f">>, <<"g">>>>, <<x, y>>) :
             x \in TupleElems, y \in OperandElems}
    \cup {RawObject(<<>>, <<>>)}

\* top-level values of the single-entry schemas, sums apart
RichTops == RawTypes(MaxDepth) \cup RichStructs

\* top-level values of the multi-entry schemas
SmallTops ==
    {RawString(<<"B">>), RawString(<<"~", "C", "?">>), RawArray(<<>>),
     RawArray(<<RawString(<<"A">>)>>),
     RawArray(<<RawString(<<"B">>), RawObject(<<<<"C">>>>, <<RawArray(<<>>)>>)>>),
     RawObject(<<<<"f">>>>, <<RawString(<<"A">>)>>),
     RawObject(<<<<"f">>>>, <<RawArray(<<RawString(<<"A">>), RawString(<<"B">>)>>)>>),
     RawArray(<<RawString(<<"A">>), RawNull>>),
     RawArray(<<RawObject(<<<<"A">>>>, <<RawString(<<"A">>)>>)>>),
     RawArray(<<RawObject(<<<<"B">>>>, <<RawString(<<"B">>)>>)>>),
     RawNull, RawNumber, RawBoolean}

InjectiveSeqs(S, n) == {q \in [1..n -> S] : \A i, j \in 1..n : q[i] = q[j] => i = j}

\* schemas of types that refer to each other and to str
Ref(name) == RawString(name)

Unit == RawObject(<<<<"U">>>>, <<RawArray(<<>>)>>)

Alt(case, payload) == RawObject(<<case>>, <<payload>>)

GraphNames == {<<"A">>, <<"B">>, <<"C">>, Str}

\* an operand of a case of several operands
GraphOperands ==
    {Ref(n) : n \in {<<"A">>, <<"B">>, <<"C">>}}
    \cup {RawArray(<<Ref(<<"A">>)>>), RawArray(<<Ref(<<"B">>)>>)}

\* decorated references to B and to str
Decorated ==
    {<<"~", "B">>, <<"B", "?">>, <<"~", "B", "?">>, <<"~">> \o Str, Str \o <<"?">>}

GraphAlts ==
    {Ref(n) : n \in {<<"B">>, Str}}
    \cup {Alt(<<"P">>, Ref(n)) : n \in GraphNames \cup Decorated}
    \cup {Alt(<<"P">>, RawArray(<<Ref(<<"B">>)>>))}
    \cup {Alt(<<"P">>, RawArray(<<x, y>>)) : x, y \in GraphOperands}

SecondAlts == {Unit, Alt(<<"Q">>, Ref(<<"B">>)), Alt(<<"Q">>, Ref(<<"C">>))}

RichGraphTops ==
    {Ref(n) : n \in GraphNames \cup {<<"~">> \o Str, Str \o <<"?">>}}
    \cup {RawObject(<<<<"f">>>>, <<Ref(n)>>) : n \in GraphNames}
    \cup {RawObject(<<<<"f">>, <<"g">>>>, <<Ref(<<"B">>), x>>) : x \in GraphOperands}
    \cup {RawArray(<<a, b>>) : a \in GraphAlts, b \in SecondAlts}

SmallGraphTops ==
    {Ref(<<"A">>),
     RawObject(<<<<"f">>>>, <<Ref(<<"B">>)>>),
     RawArray(<<Alt(<<"R">>, Ref(<<"A">>)), Unit>>),
     RawArray(<<Alt(<<"R">>, Ref(<<"B">>)), Unit>>),
     RawArray(<<Alt(<<"R">>, Ref(<<"C">>)), Alt(<<"S">>, Ref(Str))>>)}

GraphKeys == <<<<"A">>, <<"B">>, <<"C">>>>

\* elements of a derive list
DeriveElems == {RawString(<<"D">>), RawZero, RawFalse, RawNull, RawNumber, RawBoolean}

\* the config key of the document: absent, empty, with both settings, or
\* with a derive setting that is a list of one or two elements or a scalar
Configs ==
    {RawUndefined, RawNull, RawObject(<<>>, <<>>),
     RawObject(<<<<"derive">>, <<"visibility">>>>,
               <<RawArray(<<RawString(<<"D">>)>>), RawString(<<"pub">>)>>)}
    \cup {RawObject(<<<<"derive">>>>, <<RawArray(<<x>>)>>) : x \in DeriveElems}
    \cup {RawObject(<<<<"derive">>>>, <<RawArray(<<x, y>>)>>) : x, y \in DeriveElems}
    \cup {RawObject(<<<<"derive">>>>, <<x>>) : x \in {RawString(<<"D">>), RawArray(<<>>)}}

EmptyConfig == RawObject(<<>>, <<>>)

\* ----------------------------------------------------------------- state
VARIABLES ast, config, pc, models, derive, visibility, paths, stdout, stderr, error

vars == <<ast, config, pc, models, derive, visibility, paths, stdout, stderr, error>>

\* The schema (the ordered entries of ast.models) is one of: a single entry
\* with a value of RichTops; a single sum with one alternative of RichAlts
\* among alternatives of SmallAlts; up to MaxEntries entries with values of
\* SmallTops under distinct keys; the first types of GraphKeys, one with a
\* value of RichGraphTops among values of SmallGraphTops.  The config key is
\* an empty mapping, or any of Configs for a single entry of SmallGraphTops.
Init ==
    /\ \/ /\ \E v \in RichTops : ast = <<[key |-> <<"A">>, value |-> v]>>
          /\ config = EmptyConfig
       \/ /\ \E alt \in RichAlts, n \in 1..(MaxAlts - 1) :
                \E rest \in [1..n -> SmallAlts], i \in 1..(n + 1) :
                    ast = <<[key |-> <<"A">>, value |-> RawArray(InsertAt(rest, i, alt))]>>
          /\ config = EmptyConfig
       \/ /\ \E n \in 0..MaxEntries :
                \E ks \in InjectiveSeqs(TopNames, n), vs \in [1..n -> SmallTops] :
                    ast = [i \in 1..n |-> [key |-> ks[i], value |-> vs[i]]]
          /\ config = EmptyConfig
       \/ /\ \E n \in 1..Len(GraphKeys) :
                \E i \in 1..n, v \in RichGraphTops, vs \in [1..n -> SmallGraphTops] :
                    ast = [j \in 1..n |->
                              [key |-> GraphKeys[j],
                               value |-> IF j = i THEN v ELSE vs[j]]]
          /\ config = EmptyConfig
       \/ /\ \E v \in SmallGraphTops : ast = <<[key |-> <<"A">>, value |-> v]>>
          /\ config \in Configs
    /\ pc = "parse"
    /\ models = <<>>
    /\ derive = <<>>
    /\ visibility = <<>>
    /\ paths = <<>>
    /\ stdout = <<>>
    /\ stderr = <<>>
    /\ error = ""

\* main: parser.parse().  An uncaught throw ends the process with the
\* message as its diagnostic; what console.log wrote before it stays written.
Parse ==
    /\ pc = "parse"
    /\ \E r \in {parse(ast)} :
          /\ stdout' = stdout \o r.out
          /\ IF r.err # ""
             THEN /\ pc' = "aborted"
                  /\ error' = r.err
                  /\ UNCHANGED models
             ELSE /\ pc' = "parsed"
                  /\ models' = FilterNonNull(r.results)
                  /\ UNCHANGED error
    /\ UNCHANGED <<ast, config, derive, visibility, paths, stderr>>

\* main: new RustGenerator(obj.config, models).  The constructor reads
\* config.derive and config.visibility, then derivePaths marks the models,
\* writes the cycles with console.error and returns the paths, or throws.
Construct ==
    /\ pc = "parsed"
    /\ IF ~readsProperty(config)
       THEN /\ pc' = "aborted"
            /\ error' = "TypeError: Cannot read property 'derive'"
            /\ UNCHANGED <<models, derive, visibility, paths, stderr>>
       ELSE \E r \in {derivePaths(models)} :
               /\ derive' = deriveOf(config)
               /\ visibility' = visibilityOf(config)
               /\ models' = r.ms
               /\ stderr' = Append(stderr, r.cycles)
               /\ IF r.err # ""
                  THEN /\ pc' = "aborted"
                       /\ error' = r.err
                       /\ UNCHANGED paths
                  ELSE /\ pc' = "constructed"
                       /\ paths' = r.paths
                       /\ UNCHANGED error
    /\ UNCHANGED <<ast, config, stdout>>

\* main: generator.generate().  Everything is written with console.log; the
\* generator assigns to no field of itself or of the models.
Generate ==
    /\ pc = "constructed"
    /\ \E r \in {generate(derive, visibility, models, paths)} :
          /\ stdout' = stdout \o r.out
          /\ IF r.err # ""
             THEN /\ pc' = "aborted"
                  /\ error' = r.err
             ELSE /\ pc' = "generated"
                  /\ UNCHANGED error
    /\ UNCHANGED <<ast, config, models, derive, visibility, paths, stderr>>

Next == Parse \/ Construct \/ Generate

Spec == Init /\ [][Next]_vars

\* ---------------------------------------------------------------- claims
Finished == pc \in {"parsed", "aborted"}

SupportedShape(v) == v.k \in {"String", "Array", "Object"}

ValidName(n) == Len(n) >= 1 /\ \A k \in 1..Len(n) : n[k] \notin {"~", "?"}

\* the grammar ref := "~"? name "?"?
ValidRef(s) ==
    LET a == IF Len(s) >= 1 /\ s[1] = "~" THEN 2 ELSE 1
        b == IF Len(s) >= 1 /\ s[Len(s)] = "?" THEN Len(s) - 1 ELSE Len(s)
    IN a <= b /\ ValidName(SubSeq(s, a, b))

\* every scalar of the node x is in the grammar
RECURSIVE RefsValid(_)
RefsValid(x) ==
    IF x.k = "String" THEN ValidRef(x.s)
    ELSE \A k \in 1..Len(x.items) : RefsValid(x.items[k])

\* position in models of the spec of entry i, once parse has returned
SpecIndex(i) == Cardinality({j \in 1..i : SupportedShape(ast[j].value)})

SpecOf(i) == models[SpecIndex(i)]

IsSum(v) == v.k = "Array" /\ Len(v.items) >= 2

\* t records the decoration of the scalar s: flags from the first and last
\* character, and s is the target with exactly those decorators put back
Undecorated(s, t) ==
    /\ t.type.tag = "string"
    /\ t.isBoxed = (Len(s) >= 1 /\ s[1] = "~")
    /\ t.isOptional = (Len(s) >= 1 /\ s[Len(s)] = "?")
    /\ ~t.isArray
    /\ t.isSized
    /\ s = (IF t.isBoxed THEN <<"~">> ELSE <<>>) \o t.type.name
           \o (IF t.isOptional THEN <<"?">> ELSE <<>>)

\* the case name an alternative of a sum is filed under
CaseName(alt) == IF alt.k = "String" THEN alt.s ELSE alt.keys[1]

HasCaseName(alt) == alt.k = "String" \/ (alt.k = "Object" /\ Len(alt.keys) >= 1)

\* alternative j of the sum v is the last one filed under its case name
LastOfName(v, j) ==
    \A l \in (j + 1)..Len(v.items) :
        HasCaseName(v.items[l]) => CaseName(v.items[l]) # CaseName(v.items[j])

CasesNamed(spec, name) == {c \in 1..Len(spec.cases) : spec.cases[c].name = name}

CaseOf(spec, name) == spec.cases[CHOOSE c \in CasesNamed(spec, name) : TRUE].value

\* C1: once parse has returned, the specs are the entries of a supported
\* shape in key order, one each, named by the key; a scalar string gives a
\* newtype of one operand, an empty sequence a newtype without operands, a
\* sequence of two or more elements a sum, a mapping a record.
C1_ShapeToSpec ==
    pc = "parsed" =>
        /\ Len(models) = SpecIndex(Len(ast))
        /\ \A i \in 1..Len(ast) :
              LET v == ast[i].value IN
              SupportedShape(v) =>
                  /\ SpecOf(i).name = ast[i].key
                  /\ v.k = "String" =>
                        /\ SpecOf(i).kind = "TupleStructSpec"
                        /\ Len(SpecOf(i).operands) = 1
                  /\ (v.k = "Array" /\ Len(v.items) = 0) =>
                        /\ SpecOf(i).kind = "TupleStructSpec"
                        /\ Len(SpecOf(i).operands) = 0
                  /\ IsSum(v) => SpecOf(i).kind = "EnumSpec"
                  /\ v.k = "Object" => SpecOf(i).kind = "StructSpec"

C1_Witness ==
    /\ pc = "parsed"
    /\ Len(ast) = 2
    /\ IsSum(ast[1].value)
    /\ ast[2].value.k = "Object"
    /\ Len(models) = 2
    /\ models[1].kind = "EnumSpec"
    /\ models[2].kind = "StructSpec"

\* C2: once parse has returned, the spec of a top-level single-element
\* sequence [X] (its scalars in the grammar) is a newtype with exactly one operand, which has isArray set
\* and parseType(X) as its inner target.
C2_SingletonIsArrayNewtype ==
    pc = "parsed" =>
        \A i \in 1..Len(ast) :
            LET v == ast[i].value IN
            (v.k = "Array" /\ Len(v.items) = 1 /\ RefsValid(v)) =>
                /\ SpecOf(i).kind = "TupleStructSpec"
                /\ Len(SpecOf(i).operands) = 1
                /\ SpecOf(i).operands[1].isArray
                /\ SpecOf(i).operands[1].type.tag = "TypeSpec"
                /\ SpecOf(i).operands[1].type.spec = parseType(v.items[1]).val

\* C3: a scalar string in a type position (a top-level scalar, a record
\* field) parses to a TypeSpec whose target is the string without one leading
\* '~' and one trailing '?', isBoxed iff it began with '~', isOptional iff it
\* ended with '?', isArray false and isSized true.
C3_ScalarDecoration ==
    pc = "parsed" =>
        \A i \in 1..Len(ast) :
            LET v == ast[i].value IN
            /\ v.k = "String" => Undecorated(v.s, SpecOf(i).operands[1])
            /\ v.k = "Object" =>
                  \A f \in 1..Len(v.items) :
                      v.items[f].k = "String" =>
                          Undecorated(v.items[f].s, SpecOf(i).fields[f].value)

C3_Witness ==
    /\ pc = "parsed"
    /\ Len(ast) = 1
    /\ ast[1].value = RawString(<<"~", "A", "?">>)
    /\ models[1].operands[1].type.name = <<"A">>
    /\ models[1].operands[1].isBoxed
    /\ models[1].operands[1].isOptional

\* C4: a record field given as a one-element sequence [s] of a scalar s of
\* the grammar has
\* the decorators of s on the slot that has isArray (isOptional iff s ends
\* with '?', isBoxed iff s begins with '~'), and an optional one is rendered
\* by resolveType with the Option outside the array.
C4_DecoratorsOnArraySlot ==
    pc = "parsed" =>
        \A i \in 1..Len(ast) :
            LET v == ast[i].value IN
            v.k = "Object" =>
                \A f \in 1..Len(v.items) :
                    LET x == v.items[f]
                        t == SpecOf(i).fields[f].value
                    IN (x.k = "Array" /\ Len(x.items) = 1 /\ x.items[1].k = "String"
                          /\ ValidRef(x.items[1].s)) =>
                          /\ t.isArray
                          /\ t.isOptional = endsWith(x.items[1].s, "?")
                          /\ t.isBoxed = startsWith(x.items[1].s, "~")
                          /\ endsWith(x.items[1].s, "?") =>
                                SubSeq(resolveType(t, FALSE), 1, 2) = <<"Option<", "Box<[">>

\* the operands of a case agree with its payload list element by element
OperandsInListOrder(payload, operands) ==
    /\ Len(operands) = Len(payload.items)
    /\ \A k \in 1..Len(operands) :
          LET e == payload.items[k] IN
          /\ e.k = "String" => Undecorated(e.s, operands[k])
          /\ (e.k = "Array" /\ Len(e.items) = 1) => operands[k].isArray
          /\ (e.k = "Array" /\ Len(e.items) = 0) =>
                (~operands[k].isArray /\ operands[k].type.tag = "null")

\* C5: once parse has returned, an alternative {Case: payload} of a sum (the
\* last one of its case name) has a case named Case, with one non-array
\* operand for a scalar payload, none for an empty list, one array operand
\* for a one-element list, and one operand per element in list order for a
\* longer list, an element that is a one-element list giving an array operand.
C5_CaseOperands ==
    pc = "parsed" =>
        \A i \in 1..Len(ast) :
            LET v == ast[i].value IN
            IsSum(v) =>
                \A j \in 1..Len(v.items) :
                    LET alt == v.items[j] IN
                    (alt.k = "Object" /\ LastOfName(v, j)) =>
                        /\ Cardinality(CasesNamed(SpecOf(i), alt.keys[1])) = 1
                        /\ LET payload == alt.items[1]
                               operands == CaseOf(SpecOf(i), alt.keys[1]).operands
                           IN /\ payload.k = "String" =>
                                    (Len(operands) = 1 /\ ~operands[1].isArray)
                              /\ (payload.k = "Array" /\ Len(payload.items) = 0) =>
                                    Len(operands) = 0
                              /\ (payload.k = "Array" /\ Len(payload.items) = 1) =>
                                    (Len(operands) = 1 /\ operands[1].isArray)
                              /\ (payload.k = "Array" /\ Len(payload.items) >= 2) =>
                                    OperandsInListOrder(payload, operands)

C5_Witness ==
    /\ pc = "parsed"
    /\ Len(ast) = 1
    /\ IsSum(ast[1].value)
    /\ \E j \in 1..Len(ast[1].value.items) :
          LET alt == ast[1].value.items[j] IN
          /\ alt.k = "Object"
          /\ Len(alt.keys) = 1
          /\ alt.items[1].k = "Array"
          /\ Len(alt.items[1].items) = 3
          /\ alt.items[1].items[1].k = "Array"
          /\ LastOfName(ast[1].value, j)
          /\ Len(CaseOf(models[1], alt.keys[1]).operands) = 3
          /\ CaseOf(models[1], alt.keys[1]).operands[1].isArray

\* C6: once parse has returned, a scalar alternative s of a sum (in the
\* grammar, with or without '~' and '?', and the last one of its case name) has exactly one case, with a single operand, and the
\* case's name is the operand's target name.
C6_ScalarCaseNamedAsTarget ==
    pc = "parsed" =>
        \A i \in 1..Len(ast) :
            LET v == ast[i].value IN
            IsSum(v) =>
                \A j \in 1..Len(v.items) :
                    LET alt == v.items[j] IN
                    (alt.k = "String" /\ ValidRef(alt.s) /\ LastOfName(v, j)) =>
                        \E c \in 1..Len(SpecOf(i).cases) :
                            LET case == SpecOf(i).cases[c] IN
                            /\ Len(case.value.operands) = 1
                            /\ case.value.operands[1].type.tag = "string"
                            /\ case.name = case.value.operands[1].type.name
                            /\ Undecorated(alt.s, case.value.operands[1])

\* a sequence of two or more elements where a single type is expected
RECURSIVE TupleInType(_)
TupleInType(x) ==
    /\ x.k = "Array"
    /\ \/ Len(x.items) >= 2
       \/ Len(x.items) = 1 /\ TupleInType(x.items[1])

TupleInPayload(p) ==
    /\ p.k = "Array"
    /\ IF Len(p.items) >= 2 THEN \E k \in 1..Len(p.items) : TupleInType(p.items[k])
       ELSE TupleInType(p)

TupleInEntry(v) ==
    \/ v.k = "Object" /\ \E f \in 1..Len(v.items) : TupleInType(v.items[f])
    \/ v.k = "Array" /\ Len(v.items) = 1 /\ TupleInType(v.items[1])
    \/ IsSum(v) /\ \E j \in 1..Len(v.items) :
          /\ v.items[j].k = "Object"
          /\ Len(v.items[j].keys) >= 1
          /\ TupleInPayload(v.items[j].items[1])

\* C7: a run on a schema with a multi-element list where a single type is
\* expected (a record field, an element of a case's operand list) ends
\* aborted, with no spec produced and nothing written to standard output.
C7_TupleRejectedBeforeOutput ==
    (Finished /\ \E i \in 1..Len(ast) : TupleInEntry(ast[i].value)) =>
        /\ pc = "aborted"
        /\ models = <<>>
        /\ stdout = <<>>

DuplicateCase(v) ==
    /\ IsSum(v)
    /\ RefsValid(v)
    /\ \E j, l \in 1..Len(v.items) :
          /\ j < l
          /\ HasCaseName(v.items[j])
          /\ HasCaseName(v.items[l])
          /\ CaseName(v.items[j]) = CaseName(v.items[l])

\* C8: a run on a schema with a sum (its scalars in the grammar) that has
\* two alternatives of the same case name ends aborted.
C8_DuplicateCaseRejected ==
    (Finished /\ \E i \in 1..Len(ast) : DuplicateCase(ast[i].value)) =>
        pc = "aborted"

\* C9: a run on a schema with a top-level entry of an unsupported shape
\* (null, number, boolean) ends aborted, with no spec list and nothing
\* written to standard output.
C9_UnsupportedShapeFatal ==
    (Finished /\ \E i \in 1..Len(ast) : ~SupportedShape(ast[i].value)) =>
        /\ pc = "aborted"
        /\ models = <<>>
        /\ stdout = <<>>

\* the leaf target names of a TypeSpec
RECURSIVE LeafNames(_)
LeafNames(t) ==
    IF t.type.tag = "string" THEN {t.type.name}
    ELSE IF t.type.tag = "TypeSpec" THEN LeafNames(t.type.spec[1])
    ELSE {}

SpecTypeSpecs(spec) ==
    {spec.operands[o] : o \in 1..Len(spec.operands)}
    \cup {spec.fields[f].value : f \in 1..Len(spec.fields)}
    \cup UNION {{spec.cases[c].value.operands[o] :
                    o \in 1..Len(spec.cases[c].value.operands)} :
                c \in 1..Len(spec.cases)}

\* C10: no TypeSpec of a parsed model has a leaf target that is empty or
\* contains '~' or '?': scalars outside the grammar '~'? name '?'? are
\* rejected.
C10_TargetsAreNames ==
    pc = "parsed" =>
        \A m \in 1..Len(models) :
            \A t \in SpecTypeSpecs(models[m]) :
                \A n \in LeafNames(t) : ValidName(n)

\* ------------------------------------------- claims on the constructor
Constructed == pc = "constructed"

\* the models as parse returned them, before the constructor marked them
Parsed == FilterNonNull(parse(ast).results)

\* the constructor has been called and has returned or thrown
AfterConstructor == parse(ast).err = "" /\ pc \in {"constructed", "aborted"}

\* every scalar of the schema is in the grammar
SchemaRefsValid == \A i \in 1..Len(ast) : RefsValid(ast[i].value)

\* C11: a run on a document without a config key, whose models parse, leaves
\* the constructor with an empty derive list and no visibility instead of
\* aborting.
C11_ConfigOptional ==
    (AfterConstructor /\ config = RawUndefined) =>
        /\ Constructed
        /\ derive = <<>>
        /\ visibility = <<>>

\* the slots of a spec in a fixed order: operands, fields, operands of cases
Slots(spec) ==
    spec.operands
    \o [f \in 1..Len(spec.fields) |-> spec.fields[f].value]
    \o Flatten([c \in 1..Len(spec.cases) |-> spec.cases[c].value.operands])

ModelNames(ms) == {ms[m].name : m \in 1..Len(ms)}

\* the slot t refers to the type y without an array in between
RefersTo(t, y) == ~t.isArray /\ t.type.tag = "string" /\ t.type.name = y

\* the type x has a non-array slot (unboxed, if ub) that refers to y
HasRef(ms, x, y, ub) ==
    \E m \in 1..Len(ms) :
        /\ ms[m].name = x
        /\ \E k \in 1..Len(Slots(ms[m])) :
              /\ RefersTo(Slots(ms[m])[k], y)
              /\ ub => ~Slots(ms[m])[k].isBoxed

\* y is reached from x through at most n such slots
RECURSIVE Reaches(_, _, _, _, _)
Reaches(ms, x, y, ub, n) ==
    \/ HasRef(ms, x, y, ub)
    \/ /\ n > 1
       /\ \E z \in ModelNames(ms) :
             HasRef(ms, x, z, ub) /\ Reaches(ms, z, y, ub, n - 1)

\* the slot t of the type x lies on a cycle of the reference graph
OnCycle(ms, x, t) ==
    /\ ~t.isArray
    /\ t.type.tag = "string"
    /\ \/ t.type.name = x
       \/ Reaches(ms, t.type.name, x, FALSE, Len(ms))

\* C12: once the constructor has returned, no type reaches itself through
\* non-array slots that are all unboxed: every cycle of the reference graph
\* has a boxed slot.
C12_EveryCycleBoxed ==
    Constructed =>
        \A x \in ModelNames(models) : ~Reaches(models, x, x, TRUE, Len(models))

\* C13: once the constructor has returned, every non-array slot that lies on
\* a cycle of the reference graph (a field, a newtype operand, an operand of
\* a case at any position) has isBoxed set.
C13_CycleSlotsBoxed ==
    Constructed =>
        \A m \in 1..Len(models) :
            \A k \in 1..Len(Slots(models[m])) :
                OnCycle(models, models[m].name, Slots(models[m])[k]) =>
                    Slots(models[m])[k].isBoxed

\* C14: once the constructor has returned, a slot with isBoxed set was
\* parsed with isBoxed set (a '~' prefix) or is a non-array slot on a cycle
\* of the reference graph.
C14_OnlyCycleSlotsBoxed ==
    Constructed =>
        \A m \in 1..Len(models) :
            \A k \in 1..Len(Slots(models[m])) :
                Slots(models[m])[k].isBoxed =>
                    \/ Slots(Parsed[m])[k].isBoxed
                    \/ OnCycle(models, models[m].name, Slots(models[m])[k])

\* the isBoxed flags of the models, slot by slot
Boxed(ms) == [m \in 1..Len(ms) |->
                 [k \in 1..Len(Slots(ms[m])) |-> Slots(ms[m])[k].isBoxed]]

\* C15: once the constructor has returned, building the graph and breaking
\* its cycles again on the marked models changes no isBoxed flag, and no
\* flag that parse had set has been cleared by either run.
C15_BreakingIdempotentMonotonic ==
    Constructed =>
        /\ Boxed(breakCycles(models, findCycles(buildGraph(models)))) = Boxed(models)
        /\ \A m \in 1..Len(models) :
              \A k \in 1..Len(Slots(models[m])) :
                  Slots(Parsed[m])[k].isBoxed => Slots(models[m])[k].isBoxed

C15_Witness ==
    /\ Constructed
    /\ SchemaRefsValid
    /\ Len(stderr[1]) >= 1
    /\ Boxed(models) # Boxed(Parsed)
    /\ \E m \in 1..Len(models) :
          \E k \in 1..Len(Slots(models[m])) : Slots(Parsed[m])[k].isBoxed
    /\ Boxed(breakCycles(models, findCycles(buildGraph(models)))) = Boxed(models)

\* C16: once the constructor has returned, every slot whose target is str
\* has isSized cleared; the operand of the newtype written "~str" has
\* isBoxed set and isSized cleared.
C16_StrUnsized ==
    Constructed =>
        \A m \in 1..Len(models) :
            \A k \in 1..Len(Slots(models[m])) :
                isStr(Slots(models[m])[k]) => ~Slots(models[m])[k].isSized

\* C17: once the constructor has returned, no slot with target str is both
\* unboxed and not an array, so that no slot resolves to a bare str.
C17_StrWrapped ==
    Constructed =>
        \A m \in 1..Len(models) :
            \A k \in 1..Len(Slots(models[m])) :
                isStr(Slots(models[m])[k]) =>
                    /\ Slots(models[m])[k].isBoxed \/ Slots(models[m])[k].isArray
                    /\ resolveType(Slots(models[m])[k], FALSE) # Str

\* the sum x has a case of exactly one operand, not an array, with target y
SingleCase(ms, x, y) ==
    \E m \in 1..Len(ms) :
        /\ ms[m].name = x
        /\ ms[m].kind = "EnumSpec"
        /\ \E c \in 1..Len(ms[m].cases) :
              /\ Len(ms[m].cases[c].value.operands) = 1
              /\ RefersTo(ms[m].cases[c].value.operands[1], y)

\* a chain of at most n such cases leads from x to y
RECURSIVE Chain(_, _, _, _)
Chain(ms, x, y, n) ==
    \/ SingleCase(ms, x, y)
    \/ /\ n > 1
       /\ \E z \in ModelNames(ms) : SingleCase(ms, x, z) /\ Chain(ms, z, y, n - 1)

\* paths[from][to], as a sequence of no or one path
PathsFrom(from) == {p \in 1..Len(paths) : paths[p].name = from}

PathOf(from, to) ==
    UNION {{paths[p].value[q].value :
               q \in {q \in 1..Len(paths[p].value) : paths[p].value[q].name = to}} :
           p \in PathsFrom(from)}

\* C18: once the constructor has returned, for every two distinct types
\* From and To of the schema with a chain of single-operand non-array cases
\* from From to To there is a path paths[From][To].
C18_PathsComplete ==
    Constructed =>
        \A from, to \in ModelNames(models) :
            (from # to /\ Chain(models, from, to, Len(models))) =>
                PathOf(from, to) # {}

\* the case a hop names, in the models
HopCases(hop) ==
    UNION {{models[m].cases[c].value :
               c \in {c \in 1..Len(models[m].cases) :
                         models[m].cases[c].name = hop.enumCase}} :
           m \in {m \in 1..Len(models) :
                     models[m].name = hop.enumName /\ models[m].kind = "EnumSpec"}}

\* the hop is a case of exactly one operand, not an array, and its typeName
\* is the operand's target (Box<str> for str)
GoodHop(hop) ==
    /\ hop.kind = "PathSpec"
    /\ HopCases(hop) # {}
    /\ \A case \in HopCases(hop) :
          /\ Len(case.operands) = 1
          /\ ~case.operands[1].isArray
          /\ case.operands[1].type.tag = "string"
          /\ hop.typeName = IF case.operands[1].type.name = Str
                            THEN <<"Box<">> \o Str \o <<">">>
                            ELSE case.operands[1].type.name

GoodPath(from, to, path) ==
    /\ Len(path) >= 1
    /\ \A h \in 1..Len(path) : GoodHop(path[h])
    /\ path[1].enumName = from
    /\ \A h \in 1..(Len(path) - 1) : path[h].typeName = path[h + 1].enumName
    /\ path[Len(path)].typeName = to

\* C19: once the constructor has returned, every path paths[From][To] is a
\* non-empty chain of hops, each a sum case of exactly one operand that is
\* not an array; the first hop's sum is From, each hop's payload type is the
\* next hop's sum, the last hop's payload type is To.
C19_PathShape ==
    Constructed =>
        \A p \in 1..Len(paths) :
            \A q \in 1..Len(paths[p].value) :
                GoodPath(paths[p].name, paths[p].value[q].name, paths[p].value[q].value)

C19_Witness ==
    /\ Constructed
    /\ SchemaRefsValid
    /\ \E p \in 1..Len(paths) :
          \E q \in 1..Len(paths[p].value) :
              /\ Len(paths[p].value[q].value) = 2
              /\ GoodPath(paths[p].name, paths[p].value[q].name, paths[p].value[q].value)
    /\ \E m \in 1..Len(models) :
          \E c \in 1..Len(models[m].cases) :
              /\ Len(models[m].cases[c].value.operands) = 2
              /\ ~models[m].cases[c].value.operands[1].isArray

\* the sum of position m has a case of a single non-array operand whose
\* target is the sum itself
SelfCases(m) ==
    {c \in 1..Len(models[m].cases) :
        /\ Len(models[m].cases[c].value.operands) = 1
        /\ RefersTo(models[m].cases[c].value.operands[1], models[m].name)}

\* C20: once the constructor has returned, no type has a path to itself,
\* and the operand of a single-operand case that refers to its own sum is
\* boxed.
C20_NoSelfPath ==
    Constructed =>
        /\ \A p \in 1..Len(paths) : PathOf(paths[p].name, paths[p].name) = {}
        /\ \A m \in 1..Len(models) :
              \A c \in SelfCases(m) : models[m].cases[c].value.operands[1].isBoxed

C20_Witness ==
    /\ Constructed
    /\ SchemaRefsValid
    /\ Len(paths) >= 1
    /\ \E m \in 1..Len(models) :
          /\ SelfCases(m) # {}
          /\ \A c \in SelfCases(m) : models[m].cases[c].value.operands[1].isBoxed
          /\ PathOf(models[m].name, models[m].name) = {}
          /\ \E p \in 1..Len(paths) : paths[p].name = models[m].name

\* ---------------------------------------------------- claims on generate
Generated == pc = "generated"

\* the conversions of one kind written for the pair (from, to)
CastItems(kind, from, to) ==
    {i \in 1..Len(stdout) :
        /\ stdout[i].kind = kind
        /\ stdout[i].from = from
        /\ stdout[i].to = to}

\* the pairs (from, to) with a path paths[from][to]
PathPairs ==
    UNION {{<<paths[p].name, paths[p].value[q].name>> :
               q \in 1..Len(paths[p].value)} :
           p \in 1..Len(paths)}

\* C21: once generate has returned, for every path (From, To) exactly one
\* injection From<To> for From is written, and one extraction TryFrom<From>
\* for To is written if there is no path (To, From) and none if there is
\* one; no conversion is written for a pair without a path.
C21_LosslessPairs ==
    Generated =>
        /\ \A pr \in PathPairs :
              /\ Cardinality(CastItems("From", pr[1], pr[2])) = 1
              /\ Cardinality(CastItems("TryFrom", pr[1], pr[2])) =
                     (IF PathOf(pr[2], pr[1]) = {} THEN 1 ELSE 0)
        /\ \A i \in 1..Len(stdout) :
              stdout[i].kind \in {"From", "TryFrom"} =>
                  <<stdout[i].from, stdout[i].to>> \in PathPairs

C21_Witness ==
    /\ Generated
    /\ SchemaRefsValid
    /\ \E pr \in PathPairs :
          /\ PathOf(pr[2], pr[1]) # {}
          /\ CastItems("TryFrom", pr[1], pr[2]) = {}
          /\ CastItems("From", pr[1], pr[2]) # {}
    /\ \E pr \in PathPairs :
          /\ PathOf(pr[2], pr[1]) = {}
          /\ CastItems("TryFrom", pr[1], pr[2]) # {}

\* the schema { A: [ { B: "B" } ], B: [ { A: "A" } ] }
CrossCycle ==
    <<[key |-> <<"A">>,
       value |-> RawArray(<<RawObject(<<<<"B">>>>, <<RawString(<<"B">>)>>)>>)],
      [key |-> <<"B">>,
       value |-> RawArray(<<RawObject(<<<<"A">>>>, <<RawString(<<"A">>)>>)>>)]>>

\* C22: a run on the schema { A: [ { B: "B" } ], B: [ { A: "A" } ] } does
\* not abort, and once it has generated, one of the two operands is boxed,
\* the paths A to B and B to A both exist, and each direction has its
\* injection written and no extraction.
C22_CrossCycleLossless ==
    (ast = CrossCycle /\ pc # "parse") =>
        /\ pc # "aborted"
        /\ Generated =>
              /\ \E m \in 1..Len(models) :
                    \E k \in 1..Len(Slots(models[m])) : Slots(models[m])[k].isBoxed
              /\ PathOf(<<"A">>, <<"B">>) # {}
              /\ PathOf(<<"B">>, <<"A">>) # {}
              /\ CastItems("From", <<"A">>, <<"B">>) # {}
              /\ CastItems("From", <<"B">>, <<"A">>) # {}
              /\ CastItems("TryFrom", <<"A">>, <<"B">>) = {}
              /\ CastItems("TryFrom", <<"B">>, <<"A">>) = {}

BoxStr == <<"Box<">> \o Str \o <<">">>

\* the entries of paths as records of from, to and path
PathEntries ==
    UNION {{[from |-> paths[p].name, to |-> paths[p].value[q].name,
             path |-> paths[p].value[q].value] :
               q \in 1..Len(paths[p].value)} :
           p \in 1..Len(paths)}

\* the operand of the last hop of a path
LastOperand(path) == typeSpecOf(models, path[Len(path)])

\* C23: once the constructor has returned, a path whose last hop has an
\* operand with target str is recorded under Box<str> and its last hop's
\* typeName is Box<str>; any other path is recorded under the target name
\* of its last operand, which is the hop's typeName; once generate has
\* returned, the conversions of a path to str name Box<str> as the To type
\* and none names str.
C23_StrTargetIsBoxStr ==
    (Constructed \/ Generated) =>
        \A e \in PathEntries :
            /\ e.path[Len(e.path)].kind = "PathSpec"
            /\ IF isStr(LastOperand(e.path))
               THEN /\ e.to = BoxStr
                    /\ e.path[Len(e.path)].typeName = BoxStr
                    /\ Generated =>
                          /\ CastItems("From", e.from, BoxStr) # {}
                          /\ CastItems("TryFrom", e.from, BoxStr) # {}
                          /\ CastItems("From", e.from, Str) = {}
                          /\ CastItems("TryFrom", e.from, Str) = {}
               ELSE /\ LastOperand(e.path).type.tag = "string"
                    /\ e.to = LastOperand(e.path).type.name
                    /\ e.path[Len(e.path)].typeName = e.to
                    /\ Generated => CastItems("From", e.from, e.to) # {}

C23_Witness ==
    /\ Generated
    /\ SchemaRefsValid
    /\ \E e \in PathEntries :
          /\ Len(e.path) = 2
          /\ isStr(LastOperand(e.path))
          /\ LastOperand(e.path).isBoxed
          /\ e.to = BoxStr
          /\ CastItems("From", e.from, BoxStr) # {}
    /\ \E e \in PathEntries :
          /\ isStr(LastOperand(e.path))
          /\ ~LastOperand(e.path).isBoxed
    /\ \E e \in PathEntries :
          /\ ~isStr(LastOperand(e.path))
          /\ LastOperand(e.path).isBoxed

\* the models as the cycle-breaking step of the constructor leaves them
AfterBreaking == breakCycles(Parsed, findCycles(buildGraph(Parsed)))

\* C24: once the constructor has returned, and once generate has returned,
\* the models are as the cycle-breaking step left them: path inference and
\* the emitter change no attribute of any slot.
C24_OnlyBreakingMutates ==
    (Constructed \/ Generated) => models = AfterBreaking

\* the operand of hop i of a path
HopOperand(path, i) == typeSpecOf(models, path[i])

\* hop i of the extraction x matches the case of hop i of the path, against
\* the dereferenced value iff there is a hop before it whose operand is
\* boxed and not an array
GoodMatch(x, path, i) ==
    /\ x.letExpr[i].enumName = path[i].enumName
    /\ x.letExpr[i].enumCase = path[i].enumCase
    /\ x.letExpr[i].matchValue \in {"value", "*value"}
    /\ x.letExpr[i].matchValue = "*value" <=>
          /\ i > 1
          /\ HopOperand(path, i - 1).isBoxed
          /\ ~HopOperand(path, i - 1).isArray

\* hop i of the injection x builds the case of hop i of the path, around
\* Box::new iff the operand of the hop is boxed, not an array, and sized
GoodWrap(x, path, i) ==
    /\ x.fromExpr[i].enumName = path[i].enumName
    /\ x.fromExpr[i].enumCase = path[i].enumCase
    /\ x.fromExpr[i].boxNew <=>
          /\ HopOperand(path, i).isBoxed
          /\ ~HopOperand(path, i).isArray
          /\ HopOperand(path, i).isSized

\* C25: once generate has returned, every extraction and every injection
\* written for a path has one step per hop of the path, in path order; at
\* hop i the extraction matches '*value' iff hop i-1 exists and its operand
\* is boxed and not an array ('value' otherwise, and always at the first
\* hop), and the injection wraps in Box::new iff the operand of hop i is
\* boxed, not an array and sized.
C25_DerefAndBoxPerHop ==
    Generated =>
        \A e \in PathEntries :
            /\ \A k \in CastItems("TryFrom", e.from, e.to) :
                  /\ Len(stdout[k].letExpr) = Len(e.path)
                  /\ \A i \in 1..Len(e.path) : GoodMatch(stdout[k], e.path, i)
            /\ \A k \in CastItems("From", e.from, e.to) :
                  /\ Len(stdout[k].fromExpr) = Len(e.path)
                  /\ \A i \in 1..Len(e.path) : GoodWrap(stdout[k], e.path, i)

C25_Witness ==
    /\ Generated
    /\ SchemaRefsValid
    /\ \E e \in PathEntries :
          /\ Len(e.path) = 2
          /\ HopOperand(e.path, 1).isBoxed
          /\ ~HopOperand(e.path, 2).isBoxed
          /\ \E k \in CastItems("TryFrom", e.from, e.to) :
                /\ stdout[k].letExpr[1].matchValue = "value"
                /\ stdout[k].letExpr[2].matchValue = "*value"
          /\ \E k \in CastItems("From", e.from, e.to) :
                /\ stdout[k].fromExpr[1].boxNew
                /\ ~stdout[k].fromExpr[2].boxNew
    /\ \E e \in PathEntries :
          /\ HopOperand(e.path, Len(e.path)).isBoxed
          /\ ~HopOperand(e.path, Len(e.path)).isSized
          /\ \E k \in CastItems("From", e.from, e.to) :
                ~stdout[k].fromExpr[Len(e.path)].boxNew

\* Rust types as resolveType writes them: Box<T>, and the T of a Box<T>
\* (no type where the type is not a box)
BoxOf(t) == <<"Box<">> \o t \o <<">">>

NoType == <<"!">>

Unbox(t) ==
    IF Len(t) >= 2 /\ t[1] = "Box<" /\ t[Len(t)] = ">"
    THEN SubSeq(t, 2, Len(t) - 1) ELSE NoType

\* the declared type of the operand of hop i
Declared(path, i) == resolveType(HopOperand(path, i), FALSE)

\* the type of the expression the injection x puts in the case of hop i:
\* the parameter (of type to) at the last hop, the sum built by the next hop
\* otherwise, inside Box::new where the step has it
Built(x, path, to, i) ==
    IF x.fromExpr[i].boxNew
    THEN BoxOf(IF i = Len(path) THEN to ELSE path[i + 1].enumName)
    ELSE IF i = Len(path) THEN to ELSE path[i + 1].enumName

\* the type of what step i of the extraction x matches: value is the
\* parameter (of type from) at the first hop and the payload bound by the
\* step before otherwise
Matched(x, path, from, i) ==
    IF x.letExpr[i].matchValue = "*value"
    THEN Unbox(IF i = 1 THEN from ELSE Declared(path, i - 1))
    ELSE IF i = 1 THEN from ELSE Declared(path, i - 1)

\* the type of what the last step of the extraction returns in Ok
Returned(x, path) ==
    IF x.letExpr[Len(path)].gives = "return Ok(*value)"
    THEN Unbox(Declared(path, Len(path)))
    ELSE Declared(path, Len(path))

\* the injection builds at each hop a payload of the declared type
InjectionTyped(x, e) ==
    /\ Len(x.fromExpr) = Len(e.path)
    /\ x.fromExpr[1].enumName = e.from
    /\ \A i \in 1..Len(e.path) : Built(x, e.path, e.to, i) = Declared(e.path, i)

\* the extraction matches at each hop a value of the sum of the hop, and
\* returns a value of type to
ExtractionTyped(x, e) ==
    /\ Len(x.letExpr) = Len(e.path)
    /\ \A i \in 1..Len(e.path) : Matched(x, e.path, e.from, i) = e.path[i].enumName
    /\ Returned(x, e.path) = e.to

\* the extraction takes apart, hop by hop, the cases the injection builds
SameCases(inj, ext) ==
    /\ Len(inj.fromExpr) = Len(ext.letExpr)
    /\ \A i \in 1..Len(inj.fromExpr) :
          /\ inj.fromExpr[i].enumName = ext.letExpr[i].enumName
          /\ inj.fromExpr[i].enumCase = ext.letExpr[i].enumCase

\* C26: once generate has returned on a schema whose scalars are all in the
\* grammar, for every path the injection written
\* builds at each hop a payload of exactly the declared type of the case's
\* operand, and the extraction written for it, applied to the term the
\* injection builds, matches the same cases against values of the hops' sums
\* and returns the payload as a value of the To type.
C26_RoundTrip ==
    (Generated /\ SchemaRefsValid) =>
        \A e \in PathEntries :
            /\ \A k \in CastItems("From", e.from, e.to) : InjectionTyped(stdout[k], e)
            /\ \A k \in CastItems("TryFrom", e.from, e.to) :
                  /\ ExtractionTyped(stdout[k], e)
                  /\ \A j \in CastItems("From", e.from, e.to) :
                        SameCases(stdout[j], stdout[k])

\* the reflection tables and the trace implementations written for a name
ItemsOf(kind, name) ==
    {i \in 1..Len(stdout) : stdout[i].kind = kind /\ stdout[i].name = name}

\* C27: once generate has returned, every sum has exactly one reflection
\* table, with one entry per case in the order the cases have in the model
\* and in the declaration written for the sum; entry c is the resolved
\* type of the operand if case c has exactly one operand, and the __Invalid
\* sentinel if it has none or several.
C27_ReflectionTable ==
    Generated =>
        \A m \in 1..Len(models) :
            models[m].kind = "EnumSpec" =>
                /\ Cardinality(ItemsOf("TaggedUnion", models[m].name)) = 1
                /\ \A j \in ItemsOf("Enum", models[m].name) :
                      \A c \in 1..Len(models[m].cases) :
                          stdout[j].cases[c].name = models[m].cases[c].name
                /\ \A k \in ItemsOf("TaggedUnion", models[m].name) :
                      /\ stdout[k].count = Len(models[m].cases)
                      /\ Len(stdout[k].typeIds) = Len(models[m].cases)
                      /\ \A c \in 1..Len(models[m].cases) :
                            LET operands == models[m].cases[c].value.operands IN
                            /\ Len(operands) = 1 =>
                                  /\ stdout[k].typeIds[c] = resolveType(operands[1], FALSE)
                                  /\ stdout[k].typeIds[c] # Invalid
                            /\ Len(operands) # 1 => stdout[k].typeIds[c] = Invalid

C27_Witness ==
    /\ Generated
    /\ SchemaRefsValid
    /\ \E m \in 1..Len(models) :
          /\ models[m].kind = "EnumSpec"
          /\ Len(models[m].cases) = 2
          /\ Len(models[m].cases[1].value.operands) >= 2
          /\ Len(models[m].cases[2].value.operands) = 1
          /\ \E k \in ItemsOf("TaggedUnion", models[m].name) :
                /\ stdout[k].typeIds[1] = Invalid
                /\ stdout[k].typeIds[2] # Invalid
    /\ \E m \in 1..Len(models) :
          /\ models[m].kind = "EnumSpec"
          /\ \E c \in 1..Len(models[m].cases) :
                Len(models[m].cases[c].value.operands) = 0

\* the arm written for the case: as many distinct variables as the case has
\* operands, each visited once, in the order they are bound
GoodArm(arm, model, case) ==
    /\ arm.t = "arm"
    /\ arm.enumName = model.name
    /\ arm.enumCase = case.name
    /\ Len(arm.binds) = Len(case.value.operands)
    /\ \A a, b \in 1..Len(arm.binds) : arm.binds[a] = arm.binds[b] => a = b
    /\ arm.body = [k \in 1..Len(arm.binds) |-> TraceVar(arm.binds[k])]

\* the trace body written for the model visits its children once each, in
\* declaration order
GoodTrace(items, model) ==
    IF model.kind = "TupleStructSpec"
    THEN items = [i \in 1..Len(model.operands) |-> TraceSelf(i - 1)]
    ELSE IF model.kind = "StructSpec"
         THEN items = [f \in 1..Len(model.fields) |-> TraceSelf(model.fields[f].name)]
         ELSE /\ Len(items) = Len(model.cases) + 2
              /\ items[1].t = "match"
              /\ items[Len(items)].t = "end"
              /\ \A c \in 1..Len(model.cases) :
                    GoodArm(items[c + 1], model, model.cases[c])

\* C28: once generate has returned, every spec has exactly one trace
\* implementation, whose body has one visit per operand index for a newtype,
\* one visit per field in field order for a record, and for a sum one match
\* arm per case in case order that binds and visits as many distinct
\* variables as the case has operands (none for a unit case).
C28_TraceVisitsEachChildOnce ==
    Generated =>
        \A m \in 1..Len(models) :
            /\ Cardinality(ItemsOf("Trace", models[m].name)) = 1
            /\ \A k \in ItemsOf("Trace", models[m].name) :
                  GoodTrace(stdout[k].items, models[m])

C28_Witness ==
    /\ Generated
    /\ SchemaRefsValid
    /\ \E m \in 1..Len(models) :
          /\ models[m].kind = "EnumSpec"
          /\ \E c \in 1..Len(models[m].cases) :
                Len(models[m].cases[c].value.operands) >= 2
          /\ \E c \in 1..Len(models[m].cases) :
                Len(models[m].cases[c].value.operands) = 0
          /\ \E k \in ItemsOf("Trace", models[m].name) :
                \E i \in 1..Len(stdout[k].items) :
                    /\ stdout[k].items[i].t = "arm"
                    /\ Len(stdout[k].items[i].body) >= 2
    /\ \E m \in 1..Len(models) :
          /\ models[m].kind = "StructSpec"
          /\ \E k \in ItemsOf("Trace", models[m].name) : Len(stdout[k].items) = 1
    /\ \E m \in 1..Len(models) :
          /\ models[m].kind = "TupleStructSpec"
          /\ \E k \in ItemsOf("Trace", models[m].name) : Len(stdout[k].items) = 1

\* the declarations written for a name
Declarations(name) ==
    {i \in 1..Len(stdout) :
        /\ stdout[i].kind \in {"TupleStruct", "Struct", "Enum"}
        /\ stdout[i].name = name}

\* C29: a run whose schema parses and whose config can be read does not
\* abort in the constructor or in generate; when the reference graph has no
\* vertex the path map is empty; once generate has returned, every spec has
\* one declaration and one trace implementation.
C29_EmptyGraphGenerates ==
    (parse(ast).err = "" /\ readsProperty(config) /\ pc \notin {"parse", "parsed"}) =>
        /\ pc # "aborted"
        /\ Len(buildGraph(Parsed).nodes) = 0 => paths = <<>>
        /\ Generated =>
              \A m \in 1..Len(models) :
                  /\ Cardinality(Declarations(models[m].name)) = 1
                  /\ Cardinality(ItemsOf("Trace", models[m].name)) = 1

\* input is an array and every one of its elements is a string
ArrayOfStrings(input) ==
    /\ typeOf(input) = "Array"
    /\ \A k \in 1..Len(input.items) : typeOf(input.items[k]) = "String"

\* C30: isStringArray returns true on config.derive iff it is an array of
\* strings only, and once the constructor has returned the derive list is
\* config.derive if that is an array of strings and empty otherwise, so that
\* it holds no element that is not a string.
C30_DeriveHoldsStringsOnly ==
    (Constructed \/ Generated) =>
        /\ isStringArray(Get(config, <<"derive">>))
              <=> ArrayOfStrings(Get(config, <<"derive">>))
        /\ derive = IF ArrayOfStrings(Get(config, <<"derive">>))
                    THEN Get(config, <<"derive">>).items ELSE <<>>
        /\ \A k \in 1..Len(derive) : typeOf(derive[k]) = "String"

====
